---- MODULE Spec2Model ----
(***************************************************************************)
(* Model of the python2rust orchestration engine.                          *)
(*                                                                         *)
(*   Spec      : MigrationWorkflow, the verify/fix loop                    *)
(*               (_run_verification, _apply_fixes_if_needed,               *)
(*               _calculate_fix_score) with VerificationChain.verify.      *)
(*   FairSpec  : Spec with weak fairness of its steps (the awaited         *)
(*               coroutine is always resumed by the event loop).           *)
(*   SpecVerify: VerificationChain.verify followed by                      *)
(*               _calculate_fix_score, on every answer of the oracle.      *)
(*   SpecBuild : BuildWorkflow (cargo check, compilation fix sub-loop,     *)
(*               clippy, clippy fix sub-loop, _ensure_build_output).       *)
(*   SpecState : MigrationState.update_best_result, called on its own.     *)
(*   SpecStateDefault: the same from the MigrationState() of the agent.    *)
(*   SpecPipeline: one run of MigrationAgent.migrate over the chain of     *)
(*               _setup_migration_chain: the migration steps (the          *)
(*               verify/fix loop by its outcomes), the BuildWorkflow       *)
(*               steps, the TestWorkflow steps, _format_final_result.      *)
(*   SpecRuns  : several calls of migrate on one migration-only agent.     *)
(*   SpecHarness: one operation of RustBuilder (build, check, test,        *)
(*               clippy) with _run_command and its timeout.                *)
(*   SpecProbe : ServerTester.test_server (validation, _run_server,        *)
(*               _wait_for_server, _run_test_script, _stop_server), its    *)
(*               process group and server.log, over several calls.         *)
(*   FairProbe : SpecProbe with weak fairness of the steps the event       *)
(*               loop takes by itself.                                     *)
(*                                                                         *)
(* Candidates are identified by the number of the fix call that produced   *)
(* them (0 is the generated candidate); diagnostics by the number of the   *)
(* toolchain call that produced them.                                      *)
(***************************************************************************)
EXTENDS Integers, Sequences, FiniteSets, TLC

\* ------------------------------------------------------------------ bounds
\* Largest number of issues the oracle lists in one category.
MaxIssues == 2
\* Largest number of entries of a non-list (dict) category value.
MaxDictEntries == 1
\* Largest number of update_best_result calls made on one MigrationState.
MaxUpdateCalls == 2
\* Largest number of migrate calls made on one MigrationAgent.
MaxRuns == 2
\* Largest number of iterations of the readiness loop that start before
\* startup_timeout has elapsed.
MaxPolls == 2
\* Largest number of lines of server.log that match a failure signature.
MaxSigLines == 1
\* Largest number of test_server calls made on one ServerTester.
MaxProbeRuns == 2

\* ----------------------------------------------------- program constants
\* MigrationWorkflow.max_fix_attempts
max_fix_attempts == 4
\* BuildWorkflow.max_fix_attempts
build_max_fix_attempts == 6
\* TestWorkflow.max_fix_attempts
test_max_fix_attempts == 3

\* ------------------------------------------------------------- variables
VARIABLES
    \* MigrationWorkflow
    pc,                  \* position in the migration sequence
    inputs,              \* the context dict threaded through the steps
    verification_result, \* local of _apply_fixes_if_needed
    best_result,         \* local: None or the recorded best
    best_score,          \* local
    attempt,             \* loop index of range(max_fix_attempts)
    score,               \* local: the score computed last
    log,                 \* the messages logged by _apply_fixes_if_needed
    \* observations of one run (what the mocks of a test record)
    fix_calls,           \* number of calls of chains["fix"].fix
    verify_calls,        \* number of calls of chains["verification"].verify
    fix_args,            \* arguments of the last fix call
    attempts_scored,     \* the fixed candidates that were re-verified and scored
    max_score_seen,      \* the greatest score of a fixed candidate so far
    max_ids,             \* the fixed candidates that were given that score
    scenario,            \* how many leading attempts scored as ScenarioD
    entry_inputs,        \* inputs as passed to _apply_fixes_if_needed
    \* VerificationChain.verify and _calculate_fix_score on their own
    vpc,                 \* "raw", "verified", "scored", or "idle"
    raw_answer,          \* the oracle's answer
    verified,            \* what verify returns for it
    fix_score,           \* what _calculate_fix_score returns for that
    \* BuildWorkflow
    bpc,                 \* position in the build sequence
    binputs,             \* the context dict threaded through its steps
    current_rust_code,   \* local of the fix sub-loops
    current_toml_content,\* local of the fix sub-loops
    battempt,            \* loop index of range(max_fix_attempts)
    clippy_error,        \* local of _apply_clippy_fixes_if_needed
    build_result,        \* None or the BuildResult
    \* observations of one build run
    check_calls,         \* number of calls of RustBuilder.check
    check_passes,        \* number of them that passed
    clippy_calls,        \* number of calls of RustBuilder.clippy
    clippy_passes,       \* number of them that passed
    compile_fix_calls,   \* fix calls of the compilation sub-loop
    clippy_fix_calls,    \* fix calls of the clippy sub-loop
    build_fix_args,      \* arguments of the last fix call
    prepare_calls,       \* calls of prepare_project by _ensure_build_output
    workdir,             \* the candidate written to the working directory
    \* MigrationState
    spc,                 \* "ready" while update_best_result is called on
                         \* its own, or "idle"
    best_verification_score, \* field of MigrationState
    state_best_result,   \* field best_result of MigrationState
    current_analysis,    \* field of MigrationState
    latest_generation,   \* field of MigrationState
    last_verification_result, \* field of MigrationState
    \* observations of the update_best_result calls
    ubr_calls,           \* number of calls
    ubr_args,            \* arguments of the last call
    ubr_score,           \* the score the last call computed
    \* MigrationAgent.migrate and TestWorkflow
    ppc,                 \* index of the next step of migration_chain
    ctx,                 \* the dict handed from one step to the next
    mret,                \* None or the tuple migrate returned
    final_result,        \* None or the dict of _format_final_result
    tpc,                 \* "loop" inside the loop of _handle_test_results
    tattempt,            \* loop index of range(max_fix_attempts)
    test_current_rust_code,    \* local of _handle_test_results
    test_current_toml_content, \* local of _handle_test_results
    \* observations of one migrate run
    stages,              \* the stages in the order they were started
    loop_outcome,        \* how _apply_fixes_if_needed ended
    spawn_calls,         \* server processes started by test_server
    test_fix_calls,      \* fix calls of _handle_test_results
    enabled_workflows,   \* the workflows the agent was constructed with
    runs,                \* number of migrate calls made on the agent
    \* RustBuilder
    hpc,                 \* position in build / check / test / clippy
    hop,                 \* the operation called
    build_timeout,       \* field of RustBuilder
    hchild,              \* the process of _run_command
    hcmd,                \* None, or what _run_command returned or raised
    hresult,             \* None, or the tuple the operation returned
    \* observations of one operation
    hkill_calls,         \* calls of process.kill()
    htimed_out,          \* wait_for raised asyncio.TimeoutError
    \* ServerTester
    probe_pc,            \* position in test_server
    process,             \* self.process: None or the handle
    log_file,            \* self.log_file: None or the file object
    log_errors,          \* self.log_errors: the number of its entries
    polls,               \* iterations of the loop of _wait_for_server
    ret,                 \* None, or what test_server returned or raised
    \* the operating system
    log_handle,          \* the file object of server.log: "none", "open",
                         \* "closed"
    child,               \* the process "cargo run" started
    descendant,          \* a process the child started, in its group
    log_sig,             \* lines of server.log matching ERROR_PATTERNS
    \* observations of one test_server run
    probe_events,        \* "spawn", "ready", "probe", "teardown" in order
    signals,             \* the signals sent to the process group
    stop_calls,          \* calls of _stop_server
    stop_error,          \* None, or the exception that left the latest _stop_server
    cause,               \* why the run ended
    last_check,          \* what the last iteration of the wait observed
    sig_at_ready,        \* log_sig when the GET answered 200
    script_obs,          \* exit code of the script, log_sig at its check
    \* observations across runs on one tester
    probe_runs,          \* number of test_server calls
    prev_ret,            \* ret of the previous run
    prev_cause           \* cause of the previous run

vflVars == <<pc, inputs, verification_result, best_result, best_score, attempt,
             score, log, fix_calls, verify_calls, fix_args, attempts_scored,
             max_score_seen, max_ids, scenario, entry_inputs>>

verifyVars == <<vpc, raw_answer, verified, fix_score>>

buildVars == <<bpc, binputs, current_rust_code, current_toml_content, battempt,
               clippy_error, build_result, check_calls, check_passes,
               clippy_calls, clippy_passes, compile_fix_calls,
               clippy_fix_calls, build_fix_args, prepare_calls, workdir>>

stateVars == <<spc, best_verification_score, state_best_result,
               current_analysis, latest_generation, last_verification_result,
               ubr_calls, ubr_args, ubr_score>>

pipeVars == <<ppc, ctx, mret, final_result, tpc, tattempt,
              test_current_rust_code, test_current_toml_content, stages,
              loop_outcome, spawn_calls, test_fix_calls, enabled_workflows,
              runs>>

harnessVars == <<hpc, hop, build_timeout, hchild, hcmd, hresult,
                 hkill_calls, htimed_out>>

testerVars == <<process, log_file, log_errors, log_handle>>

probeObs == <<probe_events, signals, stop_calls, stop_error, cause,
              last_check, sig_at_ready, script_obs, probe_runs, prev_ret,
              prev_cause>>

probeVars == <<probe_pc, testerVars, polls, ret, child, descendant, log_sig,
               probeObs>>

toolVars == <<harnessVars, probeVars>>

vars == <<vflVars, verifyVars, buildVars, stateVars, pipeVars, toolVars>>

\* ---------------------------------------------------------------- values
None == [none |-> TRUE]

\* float('inf'), float('-inf') and the finite floats the loop computes
PosInf == [inf |-> 1, val |-> 0]
NegInf == [inf |-> -1, val |-> 0]
Fin(n) == [inf |-> 0, val |-> n]

\* Python's > on floats, infinities included
ScoreGT(a, b) ==
    \/ a.inf > b.inf
    \/ a.inf = 0 /\ b.inf = 0 /\ a.val > b.val

ScoreGE(a, b) == ScoreGT(a, b) \/ a = b

\* The categories of an answer (two of the prompt's four are modelled).
Categories == {"core", "routing"}

\* A category's value in the oracle's JSON: a list of n issues, or a
\* non-list value (a dict) of n entries; n is what len() returns.
List(n) == [isList |-> TRUE, n |-> n]
Dict(n) == [isList |-> FALSE, n |-> n]
CategoryValues ==
    {List(n) : n \in 0..MaxIssues} \cup {Dict(n) : n \in 0..MaxDictEntries}

\* The oracle's raw answer: its own "matches" and the critical differences.
RawAnswers ==
    [matches : BOOLEAN, critical_differences : [Categories -> CategoryValues]]

\* The answers that follow the prompt's schema: every category a list, and
\* "matches" set when all the lists are empty.
SchemaAnswers ==
    {[matches |-> \A c \in Categories : cd[c].n = 0,
      critical_differences |-> cd] :
        cd \in [Categories -> {List(n) : n \in 0..MaxIssues}]}

\* ---------------------------------------------- VerificationChain.verify
\* a mutation: every non-empty value counts, list or not
has_critical_differences_any(critical_differences) ==
    \E c \in DOMAIN critical_differences : critical_differences[c].n > 0

\* any(isinstance(issues, list) and issues for issues in ....values())
has_critical_differences(critical_differences) ==
    \E c \in DOMAIN critical_differences :
        critical_differences[c].isList /\ critical_differences[c].n > 0

\* The result verify returns for the oracle's answer raw on candidate code;
\* "of" names the candidate that was verified.
verify(raw, code) ==
    [matches |-> ~has_critical_differences(raw.critical_differences),
     critical_differences |-> raw.critical_differences,
     of |-> code]

\* ------------------------------ MigrationWorkflow._calculate_fix_score
\* a mutation: no extra weight for "core"
weight_uniform(category) == 1

\* weight = 2.0 if category == "core" else 1.0
weight(category) == IF category = "core" THEN 2 ELSE 1

RECURSIVE sum_differences(_, _)
\* the for loop: score -= len(issues) * weight, over the categories cats
sum_differences(differences, cats) ==
    IF cats = {} THEN 0
    ELSE LET c == CHOOSE x \in cats : TRUE
         IN  sum_differences(differences, cats \ {c})
             - differences[c].n * weight(c)

calculate_fix_score(v) ==
    IF v.matches THEN PosInf
    ELSE Fin(sum_differences(v.critical_differences,
                             DOMAIN v.critical_differences))

\* ------------------------- MigrationWorkflow._apply_fixes_if_needed
\* a mutation: the early return is lost
needs_no_fixes_never(v) == FALSE

\* if verification_result["matches"]: return inputs
needs_no_fixes(v) == v.matches

\* a mutation: >= instead of >
is_better_or_equal(s, best) == ScoreGE(s, best)

\* a mutation: the comparison is dropped, the last attempt is recorded
is_better_always(s, best) == TRUE

\* if score > best_score
is_better(s, best) == ScoreGT(s, best)

\* a mutation: one iteration too many
in_range_inclusive(a) == a <= max_fix_attempts

\* for attempt in range(self.max_fix_attempts)
in_range(a) == a < max_fix_attempts

\* a mutation: the next fix starts from the recorded best
fix_arguments_best(inp, vr) ==
    IF best_result = None
    THEN [rust_code |-> inp.rust_code, toml_content |-> inp.toml_content,
          verification_of |-> vr.of]
    ELSE [rust_code |-> best_result.rust_code,
          toml_content |-> best_result.toml_content,
          verification_of |-> best_result.verification.of]

\* the arguments of chains["fix"].fix; the verification result is recorded
\* by the candidate it is the verification of
fix_arguments(inp, vr) ==
    [rust_code |-> inp.rust_code, toml_content |-> inp.toml_content,
     verification_of |-> vr.of]

\* a mutation: the result is marked when there is no best result
after_loop_inputs_marked(inp, best) ==
    IF best # None
    THEN [inp EXCEPT !.rust_code = best.rust_code,
                     !.toml_content = best.toml_content,
                     !.verification = best.verification]
    ELSE [k \in DOMAIN inp \cup {"no_successful_fix"} |->
            IF k = "no_successful_fix" THEN TRUE ELSE inp[k]]

\* the code after the loop: the inputs that are returned
after_loop_inputs(inp, best) ==
    IF best # None
    THEN [inp EXCEPT !.rust_code = best.rust_code,
                     !.toml_content = best.toml_content,
                     !.verification = best.verification]
    ELSE inp

\* Scenario D of the specification: the scores of the leading attempts
ScenarioD == <<Fin(-4), Fin(-1), Fin(-6)>>

\* the observations after fixed candidate id was given score s
ObserveScore(id, s) ==
    /\ attempts_scored' = attempts_scored \cup {id}
    /\ max_score_seen' = IF ScoreGT(s, max_score_seen) THEN s ELSE max_score_seen
    /\ max_ids' = IF ScoreGT(s, max_score_seen) THEN {id}
                  ELSE IF s = max_score_seen THEN max_ids \cup {id}
                  ELSE max_ids
    /\ scenario' = IF id = scenario + 1 /\ id <= Len(ScenarioD)
                      /\ s = ScenarioD[id]
                   THEN id ELSE scenario

verifyIdle ==
    /\ vpc = "idle"
    /\ raw_answer = None
    /\ verified = None
    /\ fix_score = Fin(0)

\* _run_verification: the initial verify call
RunVerification ==
    /\ pc = "run_verification"
    /\ verify_calls' = verify_calls + 1
    /\ \/ \E raw \in SchemaAnswers :
            /\ inputs' = [k \in DOMAIN inputs \cup {"verification"} |->
                            IF k = "verification"
                            THEN verify(raw, inputs.rust_code) ELSE inputs[k]]
            /\ entry_inputs' = inputs'
            /\ pc' = "apply_fixes"
       \/ \* verify raises: the sequence is abandoned
          /\ pc' = "raised"
          /\ UNCHANGED <<inputs, entry_inputs>>
    /\ UNCHANGED <<verification_result, best_result, best_score, attempt,
                   score, log, fix_calls, fix_args, attempts_scored,
                   max_score_seen, max_ids, scenario, verifyVars, buildVars,
                   stateVars, pipeVars,
                   toolVars>>

\* _apply_fixes_if_needed up to the loop
ApplyFixesEntry ==
    /\ pc = "apply_fixes"
    /\ IF needs_no_fixes(inputs.verification)
       THEN /\ log' = log \cup {"No fixes needed - verification passed"}
            /\ pc' = "done"
            /\ UNCHANGED <<verification_result, best_result, best_score,
                           attempt>>
       ELSE /\ log' = log \cup {"Verification failed - attempting fixes"}
            /\ verification_result' = inputs.verification
            /\ best_result' = None
            /\ best_score' = NegInf
            /\ attempt' = 0
            /\ pc' = "loop"
    /\ UNCHANGED <<inputs, score, fix_calls, verify_calls, fix_args,
                   attempts_scored, max_score_seen, max_ids, scenario,
                   entry_inputs, verifyVars, buildVars,
                   stateVars, pipeVars,
                   toolVars>>

\* a mutation: the iteration that raised is run again
next_attempt_retried(a) == a

\* except Exception: log, continue; the for loop takes the next attempt
next_attempt(a) == a + 1

\* one iteration in which fix raises
FixRaises ==
    /\ pc = "loop" /\ in_range(attempt)
    /\ fix_calls' = fix_calls + 1
    /\ fix_args' = fix_arguments(inputs, verification_result)
    /\ log' = log \cup {"Fix attempt failed"}
    /\ attempt' = next_attempt(attempt)
    /\ UNCHANGED <<pc, inputs, verification_result, best_result, best_score,
                   score, verify_calls, attempts_scored, max_score_seen,
                   max_ids, scenario, entry_inputs, verifyVars, buildVars,
                   stateVars, pipeVars,
                   toolVars>>

\* one iteration in which fix returns and the re-verification raises
VerifyRaises ==
    /\ pc = "loop" /\ in_range(attempt)
    /\ fix_calls' = fix_calls + 1
    /\ fix_args' = fix_arguments(inputs, verification_result)
    /\ verify_calls' = verify_calls + 1
    /\ log' = log \cup {"Fix attempt failed"}
    /\ attempt' = next_attempt(attempt)
    /\ UNCHANGED <<pc, inputs, verification_result, best_result, best_score,
                   score, attempts_scored, max_score_seen, max_ids, scenario,
                   entry_inputs, verifyVars, buildVars,
                   stateVars, pipeVars,
                   toolVars>>

\* one iteration in which fix and the re-verification both return
AttemptScored ==
    /\ pc = "loop" /\ in_range(attempt)
    /\ fix_calls' = fix_calls + 1
    /\ fix_args' = fix_arguments(inputs, verification_result)
    /\ verify_calls' = verify_calls + 1
    /\ \E raw \in SchemaAnswers :
         LET fix_result == [rust_code |-> fix_calls', toml_content |-> fix_calls']
             new_verification == verify(raw, fix_result.rust_code)
             s == calculate_fix_score(new_verification)
         IN  /\ score' = s
             /\ ObserveScore(fix_result.rust_code, s)
             /\ IF is_better(s, best_score)
                THEN /\ best_score' = s
                     /\ best_result' =
                          [rust_code |-> fix_result.rust_code,
                           toml_content |-> fix_result.toml_content,
                           verification |-> new_verification]
                ELSE UNCHANGED <<best_score, best_result>>
             /\ verification_result' = new_verification
             /\ inputs' = [inputs EXCEPT !.rust_code = fix_result.rust_code,
                                         !.toml_content = fix_result.toml_content]
             /\ IF new_verification.matches
                THEN /\ log' = log \cup {"Fixes successful"}
                     /\ pc' = "done"
                     /\ UNCHANGED attempt
                ELSE /\ attempt' = attempt + 1
                     /\ UNCHANGED <<pc, log>>
    /\ UNCHANGED <<entry_inputs, verifyVars, buildVars,
                   stateVars, pipeVars,
                   toolVars>>

\* the code after the loop
AfterLoop ==
    /\ pc = "loop" /\ ~in_range(attempt)
    /\ inputs' = after_loop_inputs(inputs, best_result)
    /\ log' = log \cup {IF best_result # None
                        THEN "Using best achieved result"
                        ELSE "No successful fixes achieved"}
    /\ pc' = "done"
    /\ UNCHANGED <<verification_result, best_result, best_score, attempt,
                   score, fix_calls, verify_calls, fix_args, attempts_scored,
                   max_score_seen, max_ids, scenario, entry_inputs, verifyVars, buildVars,
                   stateVars, pipeVars,
                   toolVars>>

\* --------------------------------------------------------- BuildWorkflow
\* RustBuilder.check / RustBuilder.clippy never raise: a non-zero exit code,
\* an exception of _run_command ("timeout": the timeout or a failure to
\* spawn) and a failure to prepare the project all come back as
\* (False, text, info).
ToolFailures == {"exit_code", "timeout", "prepare"}

\* the files of a candidate
Files(code, toml) == [rust_code |-> code, toml_content |-> toml]

\* a mutation: only a passing call has written the files
files_after_pass_only(kind, dir, code, toml) ==
    IF kind = "pass" THEN {Files(code, toml)} ELSE {dir}

\* prepare_project, at the start of check and clippy, writes src/main.rs
\* and Cargo.toml before the command is run. When it raises ("prepare":
\* mkdir or the first write failed) the command is not run and the
\* working directory dir is as it was before the call.
files_after(kind, dir, code, toml) ==
    IF kind = "prepare" THEN {dir} ELSE {Files(code, toml)}

\* the diagnostic of call number n of a tool that failed the way kind says
Diagnostic(tool, n, kind) == [tool |-> tool, call |-> n, kind |-> kind]

\* dict access helpers
HasKey(d, k) == k \in DOMAIN d
Put(d, k, v) == [x \in DOMAIN d \cup {k} |-> IF x = k THEN v ELSE d[x]]
\* a mutation: inputs.pop leaves the key in place
Pop_nothing(d, k) == d

Pop(d, k) == [x \in DOMAIN d \ {k} |-> d[x]]

\* a mutation: clippy is run whatever the outcome of the compilation fixes
skips_clippy_never(inp) == FALSE

\* _run_clippy: if "build_error" in inputs: return inputs
skips_clippy(inp) == HasKey(inp, "build_error")

\* a mutation: a failing check in the sub-loop leaves inputs["build_error"]
\* as it was
failed_check_error_kept(inp, error) == inp

\* a mutation: a failing check in the sub-loop also puts another candidate
\* into inputs
failed_check_error_with_candidate(inp, error) ==
    [inp EXCEPT !.build_error = error, !.rust_code = @ + 1]

\* inputs["build_error"] = error, after a failing check in the sub-loop
failed_check_error(inp, error) == [inp EXCEPT !.build_error = error]

\* a mutation: one attempt more than max_fix_attempts
build_in_range_inclusive(a) == a <= build_max_fix_attempts

\* for attempt in range(self.max_fix_attempts)
build_in_range(a) == a < build_max_fix_attempts

\* a mutation: fix is called without the diagnostic
build_fix_arguments_without_error(code, toml, category, error) ==
    [rust_code |-> code, toml_content |-> toml,
     category |-> category, error |-> None]

\* the arguments of chains["fix"].fix in the two sub-loops
build_fix_arguments(code, toml, category, error) ==
    [rust_code |-> code, toml_content |-> toml,
     category |-> category, error |-> error]

\* _run_cargo_check
RunCargoCheck ==
    /\ bpc = "cargo_check"
    /\ check_calls' = check_calls + 1
    /\ \/ /\ check_passes' = check_passes + 1
          /\ workdir' \in files_after("pass", workdir, binputs.rust_code,
                                      binputs.toml_content)
          /\ UNCHANGED binputs
       \/ \E kind \in ToolFailures :
            /\ workdir' \in files_after(kind, workdir, binputs.rust_code,
                                        binputs.toml_content)
            /\ binputs' = Put(Put(binputs, "build_error",
                                  Diagnostic("check", check_calls', kind)),
                              "build_info", check_calls')
            /\ UNCHANGED check_passes
    /\ bpc' = "build_fixes"
    /\ UNCHANGED <<current_rust_code, current_toml_content, battempt,
                   clippy_error, build_result, clippy_calls, clippy_passes,
                   compile_fix_calls, clippy_fix_calls, build_fix_args,
                   prepare_calls, vflVars, verifyVars,
                   stateVars, pipeVars,
                   toolVars>>

\* _apply_build_fixes_if_needed up to the loop
ApplyBuildFixesEntry ==
    /\ bpc = "build_fixes"
    /\ IF ~HasKey(binputs, "build_error")
       THEN /\ bpc' = "clippy"
            /\ UNCHANGED <<current_rust_code, current_toml_content, battempt>>
       ELSE /\ current_rust_code' = binputs.rust_code
            /\ current_toml_content' = binputs.toml_content
            /\ battempt' = 0
            /\ bpc' = "build_loop"
    /\ UNCHANGED <<binputs, clippy_error, build_result, check_calls,
                   check_passes, clippy_calls, clippy_passes,
                   compile_fix_calls, clippy_fix_calls, build_fix_args,
                   prepare_calls, workdir, vflVars, verifyVars,
                   stateVars, pipeVars,
                   toolVars>>

\* an iteration of the compilation sub-loop in which fix raises
BuildFixRaises ==
    /\ bpc = "build_loop" /\ build_in_range(battempt)
    /\ compile_fix_calls' = compile_fix_calls + 1
    /\ build_fix_args' = build_fix_arguments(current_rust_code,
                             current_toml_content, "compilation",
                             binputs.build_error)
    /\ battempt' = battempt + 1
    /\ UNCHANGED <<bpc, binputs, current_rust_code, current_toml_content,
                   clippy_error, build_result, check_calls, check_passes,
                   clippy_calls, clippy_passes, clippy_fix_calls,
                   prepare_calls, workdir, vflVars, verifyVars,
                   stateVars, pipeVars,
                   toolVars>>

\* an iteration of the compilation sub-loop in which fix returns and the
\* fixed candidate is checked
BuildFixChecked ==
    /\ bpc = "build_loop" /\ build_in_range(battempt)
    /\ compile_fix_calls' = compile_fix_calls + 1
    /\ build_fix_args' = build_fix_arguments(current_rust_code,
                             current_toml_content, "compilation",
                             binputs.build_error)
    /\ check_calls' = check_calls + 1
    /\ LET fix_result == [rust_code |-> compile_fix_calls',
                          toml_content |-> compile_fix_calls']
       IN  /\ \/ /\ check_passes' = check_passes + 1
                 /\ workdir' \in files_after("pass", workdir,
                                   fix_result.rust_code,
                                   fix_result.toml_content)
                 /\ binputs' = Pop([binputs EXCEPT
                                      !.rust_code = fix_result.rust_code,
                                      !.toml_content = fix_result.toml_content],
                                   "build_error")
                 /\ bpc' = "clippy"
                 /\ UNCHANGED <<current_rust_code, current_toml_content,
                                battempt>>
              \/ \E kind \in ToolFailures :
                   /\ workdir' \in files_after(kind, workdir,
                                     fix_result.rust_code,
                                     fix_result.toml_content)
                   /\ current_rust_code' = fix_result.rust_code
                   /\ current_toml_content' = fix_result.toml_content
                   /\ binputs' = failed_check_error(binputs,
                                    Diagnostic("check", check_calls', kind))
                   /\ battempt' = battempt + 1
                   /\ UNCHANGED <<bpc, check_passes>>
    /\ UNCHANGED <<clippy_error, build_result, clippy_calls, clippy_passes,
                   clippy_fix_calls, prepare_calls, vflVars, verifyVars,
                   stateVars, pipeVars,
                   toolVars>>

\* the compilation sub-loop ends without a passing check
BuildLoopExhausted ==
    /\ bpc = "build_loop" /\ ~build_in_range(battempt)
    /\ bpc' = "clippy"
    /\ UNCHANGED <<binputs, current_rust_code, current_toml_content, battempt,
                   clippy_error, build_result, check_calls, check_passes,
                   clippy_calls, clippy_passes, compile_fix_calls,
                   clippy_fix_calls, build_fix_args, prepare_calls, workdir,
                   vflVars, verifyVars,
                   stateVars, pipeVars,
                   toolVars>>

\* _run_clippy
RunClippy ==
    /\ bpc = "clippy"
    /\ IF skips_clippy(binputs)
       THEN UNCHANGED <<binputs, clippy_calls, clippy_passes, workdir>>
       ELSE /\ clippy_calls' = clippy_calls + 1
            /\ \/ /\ clippy_passes' = clippy_passes + 1
                  /\ workdir' \in files_after("pass", workdir,
                                    binputs.rust_code, binputs.toml_content)
                  /\ UNCHANGED binputs
               \/ \E kind \in ToolFailures :
                    /\ workdir' \in files_after(kind, workdir,
                                      binputs.rust_code,
                                      binputs.toml_content)
                    /\ binputs' = Put(Put(binputs, "clippy_error",
                                       Diagnostic("clippy", clippy_calls', kind)),
                                      "clippy_info", clippy_calls')
                    /\ UNCHANGED clippy_passes
    /\ bpc' = "clippy_fixes"
    /\ UNCHANGED <<current_rust_code, current_toml_content, battempt,
                   clippy_error, build_result, check_calls, check_passes,
                   compile_fix_calls, clippy_fix_calls, build_fix_args,
                   prepare_calls, vflVars, verifyVars,
                   stateVars, pipeVars,
                   toolVars>>

\* inputs.get(key)
Get(d, k) == IF HasKey(d, k) THEN d[k] ELSE None

\* _apply_clippy_fixes_if_needed up to the loop
ApplyClippyFixesEntry ==
    /\ bpc = "clippy_fixes"
    /\ IF HasKey(binputs, "build_error")
       THEN /\ build_result' = [success |-> FALSE,
                                rust_code |-> binputs.rust_code,
                                toml_content |-> binputs.toml_content,
                                error |-> binputs.build_error,
                                build_info |-> Get(binputs, "build_info")]
            /\ bpc' = "ensure"
            /\ UNCHANGED <<current_rust_code, current_toml_content, battempt,
                           clippy_error>>
       ELSE IF ~HasKey(binputs, "clippy_error")
       THEN /\ build_result' = [success |-> TRUE,
                                rust_code |-> binputs.rust_code,
                                toml_content |-> binputs.toml_content,
                                error |-> None,
                                build_info |-> Get(binputs, "clippy_info")]
            /\ bpc' = "ensure"
            /\ UNCHANGED <<current_rust_code, current_toml_content, battempt,
                           clippy_error>>
       ELSE /\ current_rust_code' = binputs.rust_code
            /\ current_toml_content' = binputs.toml_content
            /\ clippy_error' = binputs.clippy_error
            /\ battempt' = 0
            /\ bpc' = "clippy_loop"
            /\ UNCHANGED build_result
    /\ UNCHANGED <<binputs, check_calls, check_passes, clippy_calls,
                   clippy_passes, compile_fix_calls, clippy_fix_calls,
                   build_fix_args, prepare_calls, workdir, vflVars, verifyVars,
                   stateVars, pipeVars,
                   toolVars>>

\* an iteration of the clippy sub-loop in which fix raises
ClippyFixRaises ==
    /\ bpc = "clippy_loop" /\ build_in_range(battempt)
    /\ clippy_fix_calls' = clippy_fix_calls + 1
    /\ build_fix_args' = build_fix_arguments(current_rust_code,
                             current_toml_content, "clippy", clippy_error)
    /\ battempt' = battempt + 1
    /\ UNCHANGED <<bpc, binputs, current_rust_code, current_toml_content,
                   clippy_error, build_result, check_calls, check_passes,
                   clippy_calls, clippy_passes, compile_fix_calls,
                   prepare_calls, workdir, vflVars, verifyVars,
                   stateVars, pipeVars,
                   toolVars>>

\* an iteration of the clippy sub-loop in which fix returns and clippy is
\* run on the fixed candidate
ClippyFixChecked ==
    /\ bpc = "clippy_loop" /\ build_in_range(battempt)
    /\ clippy_fix_calls' = clippy_fix_calls + 1
    /\ build_fix_args' = build_fix_arguments(current_rust_code,
                             current_toml_content, "clippy", clippy_error)
    /\ clippy_calls' = clippy_calls + 1
    /\ LET id == compile_fix_calls + clippy_fix_calls'
           fix_result == [rust_code |-> id, toml_content |-> id]
       IN  /\ \/ /\ clippy_passes' = clippy_passes + 1
                 /\ workdir' \in files_after("pass", workdir,
                                   fix_result.rust_code,
                                   fix_result.toml_content)
                 /\ build_result' = [success |-> TRUE,
                                     rust_code |-> fix_result.rust_code,
                                     toml_content |-> fix_result.toml_content,
                                     error |-> None,
                                     build_info |-> clippy_calls']
                 /\ bpc' = "ensure"
                 /\ UNCHANGED <<current_rust_code, current_toml_content,
                                clippy_error, battempt>>
              \/ \E kind \in ToolFailures :
                   /\ workdir' \in files_after(kind, workdir,
                                     fix_result.rust_code,
                                     fix_result.toml_content)
                   /\ current_rust_code' = fix_result.rust_code
                   /\ current_toml_content' = fix_result.toml_content
                   /\ clippy_error' = Diagnostic("clippy", clippy_calls', kind)
                   /\ battempt' = battempt + 1
                   /\ UNCHANGED <<bpc, build_result, clippy_passes>>
    /\ UNCHANGED <<binputs, check_calls, check_passes, compile_fix_calls,
                   prepare_calls, vflVars, verifyVars,
                   stateVars, pipeVars,
                   toolVars>>

\* the clippy sub-loop ends without a passing clippy run
ClippyLoopExhausted ==
    /\ bpc = "clippy_loop" /\ ~build_in_range(battempt)
    /\ build_result' = [success |-> FALSE,
                        rust_code |-> current_rust_code,
                        toml_content |-> current_toml_content,
                        error |-> [failed_after |-> build_max_fix_attempts,
                                   clippy_error |-> clippy_error],
                        build_info |-> Get(binputs, "clippy_info")]
    /\ bpc' = "ensure"
    /\ UNCHANGED <<binputs, current_rust_code, current_toml_content, battempt,
                   clippy_error, check_calls, check_passes, clippy_calls,
                   clippy_passes, compile_fix_calls, clippy_fix_calls,
                   build_fix_args, prepare_calls, workdir, vflVars, verifyVars,
                   stateVars, pipeVars,
                   toolVars>>

\* _ensure_build_output
EnsureBuildOutput ==
    /\ bpc = "ensure"
    /\ IF ~build_result.success
       THEN UNCHANGED <<build_result, prepare_calls, workdir>>
       ELSE /\ prepare_calls' = prepare_calls + 1
            /\ \/ /\ workdir' = [rust_code |-> build_result.rust_code,
                                 toml_content |-> build_result.toml_content]
                  /\ build_result' = [build_result EXCEPT !.build_info =
                        [info |-> build_result.build_info,
                         output_dir |-> "output_dir"]]
               \/ \* prepare_project raises
                  /\ build_result' = [build_result EXCEPT
                        !.success = FALSE,
                        !.error = [prepare |-> prepare_calls']]
                  /\ UNCHANGED workdir
    /\ bpc' = "done"
    /\ UNCHANGED <<binputs, current_rust_code, current_toml_content, battempt,
                   clippy_error, check_calls, check_passes, clippy_calls,
                   clippy_passes, compile_fix_calls, clippy_fix_calls,
                   build_fix_args, vflVars, verifyVars,
                   stateVars, pipeVars,
                   toolVars>>

buildStart ==
    /\ binputs = [rust_code |-> 0, toml_content |-> 0,
                  analysis |-> "analysis"]
    /\ current_rust_code = 0
    /\ current_toml_content = 0
    /\ battempt = 0
    /\ clippy_error = None
    /\ build_result = None
    /\ check_calls = 0
    /\ check_passes = 0
    /\ clippy_calls = 0
    /\ clippy_passes = 0
    /\ compile_fix_calls = 0
    /\ clippy_fix_calls = 0
    /\ build_fix_args = None
    /\ prepare_calls = 0
    /\ workdir = None

buildIdle == bpc = "idle" /\ buildStart

\* -------------------------------------------------------- MigrationState
\* verification_result = {}: what result.get("code", {}) gives when the
\* key is absent
EmptyDict == [k \in {} |-> None]

\* a mutation: a tie replaces the stored best
state_is_better_or_equal(s, best) == s >= best

\* if score > self.best_verification_score
state_is_better(s, best) == s > best

RECURSIVE count_differences(_, _)
\* the for loop of update_best_result: score -= len(differences)
count_differences(differences, cats) ==
    IF cats = {} THEN 0
    ELSE LET c == CHOOSE x \in cats : TRUE
         IN  count_differences(differences, cats \ {c}) - differences[c].n

\* a mutation: the differences are counted upwards
update_score_counting_up(v) ==
    IF /\ HasKey(v, "critical_differences")
       /\ DOMAIN v.critical_differences # {}
    THEN 0 - count_differences(v.critical_differences,
                               DOMAIN v.critical_differences)
    ELSE 0

\* the score update_best_result computes
update_score(v) ==
    IF /\ HasKey(v, "critical_differences")
       /\ DOMAIN v.critical_differences # {}
    THEN count_differences(v.critical_differences,
                           DOMAIN v.critical_differences)
    ELSE 0

\* the fields update_best_result reads and writes
MigrationState ==
    [best_verification_score |-> best_verification_score,
     best_result |-> state_best_result]

\* update_best_result: the fields after the call
update_best_result(st, v, rust_code, toml_content) ==
    LET s == update_score(v)
    IN  IF state_is_better(s, st.best_verification_score)
        THEN [best_verification_score |-> s,
              best_result |-> [rust_code |-> rust_code,
                               toml_content |-> toml_content,
                               verification |-> v]]
        ELSE st

\* the verification results update_best_result is called with: what verify
\* returns, and the empty dict
StateVerifications == {verify(raw, 0) : raw \in RawAnswers} \cup {EmptyDict}

\* a call of update_best_result on its own
UpdateBestResult ==
    /\ spc = "ready"
    /\ ubr_calls < MaxUpdateCalls
    /\ \E v \in StateVerifications, code \in 0..1 :
         LET st == update_best_result(MigrationState, v, code, code)
         IN  /\ best_verification_score' = st.best_verification_score
             /\ state_best_result' = st.best_result
             /\ ubr_args' = [verification_result |-> v, rust_code |-> code,
                             toml_content |-> code]
             /\ ubr_score' = update_score(v)
    /\ ubr_calls' = ubr_calls + 1
    /\ UNCHANGED <<spc, current_analysis, latest_generation,
                   last_verification_result, vflVars, verifyVars, buildVars,
                   pipeVars,
                   toolVars>>

\* MigrationState(): the defaults of the dataclass, no call made yet
stateStart ==
    /\ best_verification_score = 0
    /\ state_best_result = None
    /\ current_analysis = None
    /\ latest_generation = None
    /\ last_verification_result = None
    /\ ubr_calls = 0
    /\ ubr_args = None
    /\ ubr_score = 0

stateIdle == spc = "idle" /\ stateStart

\* ------------------------------------------------------- MigrationAgent
\* a mutation: the generation step is put before the analysis step
migration_chain_generation_first ==
    <<"generation", "analysis", "verification", "apply_fixes",
      "proceed_to_build", "build", "proceed_to_test",
      "check_rust", "server_tests", "handle_tests", "format">>

\* self.enabled_workflows = workflows or ["migration", "build", "test"]
AllWorkflows == {"migration", "build", "test"}

\* _setup_migration_chain: for the enabled workflows, the steps of
\* migration_workflow.setup() and _maybe_proceed_to_build,
\* build_workflow.setup() (its own steps are the BuildWorkflow actions)
\* and _maybe_proceed_to_test, the steps of test_workflow.setup(); then
\* _format_final_result
setup_migration_chain(workflows) ==
    (IF "migration" \in workflows
     THEN <<"analysis", "generation", "verification", "apply_fixes",
            "proceed_to_build">>
     ELSE <<>>)
    \o (IF "build" \in workflows
        THEN <<"build", "proceed_to_test">> ELSE <<>>)
    \o (IF "test" \in workflows
        THEN <<"check_rust", "server_tests", "handle_tests">> ELSE <<>>)
    \o <<"format">>

\* the chain of every choice of workflows
Chains == [workflows \in SUBSET AllWorkflows |->
              setup_migration_chain(workflows)]

\* self.migration_chain, set by setup()
migration_chain == Chains[enabled_workflows]

\* the value of ppc once the run is over
End == Len(migration_chain) + 1

\* the step RunnableSequence invokes next
step(i) == IF i \in 1..Len(migration_chain) THEN migration_chain[i]
           ELSE "none"

\* _handle_failure, and _extract_result on a result without success
handle_failure == [success |-> FALSE, rust_code |-> None,
                   toml_content |-> None]

\* _extract_result
extract_result(result) ==
    IF result.success
    THEN [success |-> TRUE, rust_code |-> result.rust_code,
          toml_content |-> result.toml_content]
    ELSE handle_failure

\* The oracle's answers to verify in a migrate run: no issue, or one issue
\* in "core".
PipelineAnswers ==
    {a \in SchemaAnswers :
        /\ a.critical_differences["routing"].n = 0
        /\ a.critical_differences["core"].n <= 1}

\* the candidate of fix call k of the verify/fix loop; negative, to tell it
\* from the candidates of the fix calls of the build
LoopCandidate(k) == 0 - k

\* the candidate of fix call k of _handle_test_results
TestCandidate(k) == 0 - (max_fix_attempts + k)

\* how _apply_fixes_if_needed ended
LoopOutcome(kind, best) == [kind |-> kind, best_score |-> best]

\* what test_server returns: (True, None, results), or a failure because
\* the script is not executable, the server did not become ready, or the
\* script failed
TestServerOutcomes == {"pass", "not_executable", "no_start", "script_failed"}

\* _validate_test_script raises before _run_server is reached
spawns_server(outcome) == outcome # "not_executable"

testLocals == <<tpc, tattempt, test_current_rust_code,
                test_current_toml_content>>

\* an exception leaves the chain: migrate logs it and returns
\* _handle_failure()
Raised ==
    /\ ppc' = End
    /\ mret' = handle_failure
    /\ UNCHANGED <<ctx, final_result>>

\* migrate up to the invocation of the chain
pipeStart ==
    /\ ctx = [python_code |-> "python_code", output_dir |-> "output_dir"]
    /\ mret = None
    /\ final_result = None
    /\ tpc = "idle"
    /\ tattempt = 0
    /\ test_current_rust_code = None
    /\ test_current_toml_content = None
    /\ stages = <<>>
    /\ loop_outcome = None
    /\ spawn_calls = 0
    /\ test_fix_calls = 0

pipeIdle ==
    /\ ppc = 0
    /\ enabled_workflows = AllWorkflows
    /\ runs = 0
    /\ pipeStart

\* MigrationWorkflow._run_analysis: AnalysisChain.analyze returns
\* {"analysis": ...}, or {"error": ...} when the oracle call or the parsing
\* of its answer raises
RunAnalysis ==
    /\ step(ppc) = "analysis"
    /\ stages' = Append(stages, "Analyze")
    /\ \E analysis_result \in {[analysis |-> "analysis"],
                               [error |-> "error"]} :
            /\ current_analysis' = analysis_result
            /\ ctx' = Put(ctx, "analysis", analysis_result)
    /\ ppc' = ppc + 1
    /\ UNCHANGED <<mret, final_result, testLocals, loop_outcome, spawn_calls,
                   test_fix_calls, vflVars, verifyVars, buildVars, spc,
                   best_verification_score, state_best_result,
                   latest_generation, last_verification_result, ubr_calls,
                   ubr_args, ubr_score>>
    /\ UNCHANGED <<enabled_workflows, runs, toolVars>>

\* MigrationWorkflow._run_generation: generate re-raises
RunGeneration ==
    /\ step(ppc) = "generation"
    /\ stages' = Append(stages, "Generate")
    /\ IF ~HasKey(ctx, "analysis")
       THEN Raised /\ UNCHANGED latest_generation
       ELSE \/ Raised /\ UNCHANGED latest_generation
            \/ LET generation_result == [rust_code |-> 0,
                                         toml_content |-> 0]
               IN  /\ latest_generation' = generation_result
                   /\ ctx' = Put(Put(ctx,
                           "rust_code", generation_result.rust_code),
                           "toml_content", generation_result.toml_content)
                   /\ ppc' = ppc + 1
                   /\ UNCHANGED <<mret, final_result>>
    /\ UNCHANGED <<testLocals, loop_outcome, spawn_calls, test_fix_calls,
                   vflVars, verifyVars, buildVars, spc,
                   best_verification_score, state_best_result,
                   current_analysis, last_verification_result, ubr_calls,
                   ubr_args, ubr_score>>
    /\ UNCHANGED <<enabled_workflows, runs, toolVars>>

\* MigrationWorkflow._run_verification: verify re-raises
RunInitialVerification ==
    /\ step(ppc) = "verification"
    /\ stages' = Append(stages, "VerifyFixLoop")
    /\ IF ~HasKey(ctx, "rust_code") \/ ~HasKey(ctx, "analysis")
       THEN Raised /\ UNCHANGED last_verification_result
       ELSE \/ Raised /\ UNCHANGED last_verification_result
            \/ \E raw \in PipelineAnswers :
                 /\ last_verification_result' = verify(raw, ctx.rust_code)
                 /\ ctx' = Put(ctx, "verification", verify(raw, ctx.rust_code))
                 /\ ppc' = ppc + 1
                 /\ UNCHANGED <<mret, final_result>>
    /\ UNCHANGED <<testLocals, loop_outcome, spawn_calls, test_fix_calls,
                   vflVars, verifyVars, buildVars, spc,
                   best_verification_score, state_best_result,
                   current_analysis, latest_generation, ubr_calls, ubr_args,
                   ubr_score>>
    /\ UNCHANGED <<enabled_workflows, runs, toolVars>>

\* MigrationWorkflow._apply_fixes_if_needed by its outcomes (its steps are
\* the actions of Spec): the early return on a match; a fixed candidate
\* that matches, returned with the verification the inputs held; the loop
\* exhausted with a best result; the loop exhausted without one
ApplyFixesIfNeeded ==
    /\ step(ppc) = "apply_fixes"
    /\ IF needs_no_fixes(ctx.verification)
       THEN /\ loop_outcome' = LoopOutcome("no_fixes", PosInf)
            /\ UNCHANGED ctx
       ELSE \/ /\ ctx' = [ctx EXCEPT !.rust_code = LoopCandidate(1),
                                     !.toml_content = LoopCandidate(1)]
               /\ loop_outcome' = LoopOutcome("matched", PosInf)
            \/ \E raw \in PipelineAnswers :
                 LET v == verify(raw, LoopCandidate(1))
                     best == [rust_code |-> LoopCandidate(1),
                              toml_content |-> LoopCandidate(1),
                              verification |-> v]
                 IN  /\ ~v.matches
                     /\ ctx' = after_loop_inputs(ctx, best)
                     /\ loop_outcome' =
                            LoopOutcome("exhausted", calculate_fix_score(v))
            \/ /\ ctx' = after_loop_inputs(ctx, None)
               /\ loop_outcome' = LoopOutcome("exhausted", NegInf)
    /\ ppc' = ppc + 1
    /\ UNCHANGED <<mret, final_result, testLocals, stages, spawn_calls,
                   test_fix_calls, vflVars, verifyVars, buildVars, stateVars>>
    /\ UNCHANGED <<enabled_workflows, runs, toolVars>>

\* _maybe_proceed_to_build
MaybeProceedToBuild ==
    /\ step(ppc) = "proceed_to_build"
    /\ ctx' = [rust_code |-> Get(ctx, "rust_code"),
               toml_content |-> Get(ctx, "toml_content"),
               analysis |-> Get(ctx, "analysis"),
               code |-> IF HasKey(ctx, "verification")
                        THEN ctx.verification ELSE EmptyDict,
               output_dir |-> "output_dir"]
    /\ ppc' = ppc + 1
    /\ UNCHANGED <<mret, final_result, testLocals, stages, loop_outcome,
                   spawn_calls, test_fix_calls, vflVars, verifyVars,
                   buildVars, stateVars>>
    /\ UNCHANGED <<enabled_workflows, runs, toolVars>>

\* the chain invokes build_workflow.setup() on the dict: _run_cargo_check
\* is its first step
InvokeBuildWorkflow ==
    /\ step(ppc) = "build"
    /\ bpc = "idle"
    /\ stages' = Append(stages, "BuildSupervisor")
    /\ bpc' = "cargo_check"
    /\ binputs' = ctx
    /\ UNCHANGED <<ppc, ctx, mret, final_result, testLocals, loop_outcome,
                   spawn_calls, test_fix_calls, current_rust_code,
                   current_toml_content, battempt, clippy_error, build_result,
                   check_calls, check_passes, clippy_calls, clippy_passes,
                   compile_fix_calls, clippy_fix_calls, build_fix_args,
                   prepare_calls, workdir, vflVars, verifyVars, stateVars>>
    /\ UNCHANGED <<enabled_workflows, runs, toolVars>>

\* build_workflow.setup() returns the BuildResult of _ensure_build_output
\* to the chain; the locals of the build and the counts of its calls are
\* those of a build that has not started, the working directory stays
ReturnBuildResult ==
    /\ step(ppc) = "build"
    /\ bpc = "done"
    /\ ctx' = build_result
    /\ ppc' = ppc + 1
    /\ bpc' = "idle"
    /\ binputs' = [rust_code |-> 0, toml_content |-> 0,
                   analysis |-> "analysis"]
    /\ current_rust_code' = 0
    /\ current_toml_content' = 0
    /\ battempt' = 0
    /\ clippy_error' = None
    /\ build_result' = None
    /\ check_calls' = 0
    /\ check_passes' = 0
    /\ clippy_calls' = 0
    /\ clippy_passes' = 0
    /\ compile_fix_calls' = 0
    /\ clippy_fix_calls' = 0
    /\ build_fix_args' = None
    /\ prepare_calls' = 0
    /\ UNCHANGED <<workdir, mret, final_result, testLocals, stages,
                   loop_outcome, spawn_calls, test_fix_calls, vflVars,
                   verifyVars, stateVars>>
    /\ UNCHANGED <<enabled_workflows, runs, toolVars>>

\* _maybe_proceed_to_test
MaybeProceedToTest ==
    /\ step(ppc) = "proceed_to_test"
    /\ LET result == [build |-> [success |-> ctx.success,
                                 rust_code |-> ctx.rust_code,
                                 toml_content |-> ctx.toml_content,
                                 error |-> ctx.error,
                                 build_info |-> ctx.build_info],
                      output_dir |-> "output_dir"]
       IN  ctx' = IF ~ctx.success
                  THEN Put(result, "test",
                           [success |-> FALSE,
                            error |-> "Build failed, tests skipped",
                            skipped |-> TRUE])
                  ELSE result
    /\ ppc' = ppc + 1
    /\ UNCHANGED <<mret, final_result, testLocals, stages, loop_outcome,
                   spawn_calls, test_fix_calls, vflVars, verifyVars,
                   buildVars, stateVars>>
    /\ UNCHANGED <<enabled_workflows, runs, toolVars>>

\* ---------------------------------------------------------- TestWorkflow
\* _check_rust_installation: shutil.which('cargo') finds cargo or not
CheckRustInstallation ==
    /\ step(ppc) = "check_rust"
    /\ stages' = Append(stages, "ServiceProbe")
    /\ \E cargo_path \in {"cargo", "not found"} :
         ctx' = IF cargo_path = "not found"
                THEN Put(Put(ctx, "test_error", "Rust toolchain not found"),
                         "test_success", FALSE)
                ELSE ctx
    /\ ppc' = ppc + 1
    /\ UNCHANGED <<mret, final_result, testLocals, loop_outcome, spawn_calls,
                   test_fix_calls, vflVars, verifyVars, buildVars, stateVars>>
    /\ UNCHANGED <<enabled_workflows, runs, toolVars>>

\* _run_server_tests
RunServerTests ==
    /\ step(ppc) = "server_tests"
    /\ \E script_exists \in BOOLEAN :
         IF ~script_exists
         THEN \* TestScriptError is re-raised
              /\ Raised
              /\ UNCHANGED spawn_calls
         ELSE IF HasKey(ctx, "test_error")
         THEN /\ ppc' = ppc + 1
              /\ UNCHANGED <<ctx, mret, final_result, spawn_calls>>
         ELSE IF ~HasKey(ctx, "build")
         THEN /\ ctx' = Put(Put(ctx, "test_error", "Missing required fields"),
                            "test_success", FALSE)
              /\ ppc' = ppc + 1
              /\ UNCHANGED <<mret, final_result, spawn_calls>>
         ELSE \E outcome \in TestServerOutcomes :
                /\ spawn_calls' = IF spawns_server(outcome)
                                  THEN spawn_calls + 1 ELSE spawn_calls
                /\ ctx' = Put(Put(Put(Put(Put(ctx,
                            "test_success", outcome = "pass"),
                            "test_error", IF outcome = "pass" THEN None
                                          ELSE outcome),
                            "test_info", outcome),
                            "rust_code", ctx.build.rust_code),
                            "toml_content", ctx.build.toml_content)
                /\ ppc' = ppc + 1
                /\ UNCHANGED <<mret, final_result>>
    /\ UNCHANGED <<testLocals, stages, loop_outcome, test_fix_calls, vflVars,
                   verifyVars, buildVars, stateVars>>
    /\ UNCHANGED <<enabled_workflows, runs, toolVars>>

\* _handle_test_results up to the loop
HandleTestResultsEntry ==
    /\ step(ppc) = "handle_tests"
    /\ tpc = "idle"
    /\ IF HasKey(ctx, "test_success") /\ ctx.test_success
       THEN /\ ppc' = ppc + 1
            /\ UNCHANGED testLocals
       ELSE IF ~HasKey(ctx, "build")
       THEN /\ ppc' = ppc + 1
            /\ UNCHANGED testLocals
       ELSE /\ test_current_rust_code' = ctx.build.rust_code
            /\ test_current_toml_content' = ctx.build.toml_content
            /\ tattempt' = 0
            /\ tpc' = "loop"
            /\ UNCHANGED ppc
    /\ UNCHANGED <<ctx, mret, final_result, stages, loop_outcome, spawn_calls,
                   test_fix_calls, vflVars, verifyVars, buildVars, stateVars>>
    /\ UNCHANGED <<enabled_workflows, runs, toolVars>>

\* for attempt in range(self.max_fix_attempts)
test_in_range(a) == a < test_max_fix_attempts

\* an iteration of the loop of _handle_test_results in which fix raises
TestFixRaises ==
    /\ step(ppc) = "handle_tests"
    /\ tpc = "loop" /\ test_in_range(tattempt)
    /\ test_fix_calls' = test_fix_calls + 1
    /\ tattempt' = tattempt + 1
    /\ UNCHANGED <<ppc, ctx, mret, final_result, tpc, test_current_rust_code,
                   test_current_toml_content, stages, loop_outcome,
                   spawn_calls, vflVars, verifyVars, buildVars, stateVars>>
    /\ UNCHANGED <<enabled_workflows, runs, toolVars>>

\* a mutation: the fixed candidate is written before test_server runs
probe_files_written(dir, fix_result) == fix_result

\* self.server_tester.test_server(inputs["output_dir"]): "cargo run" in
\* the directory as it is, the fix result is not written to it
probe_files(dir, fix_result) == dir

\* an iteration in which fix returns and test_server is run again (on the
\* files of the working directory)
TestFixTested ==
    /\ step(ppc) = "handle_tests"
    /\ tpc = "loop" /\ test_in_range(tattempt)
    /\ test_fix_calls' = test_fix_calls + 1
    /\ LET fix_result == [rust_code |-> TestCandidate(test_fix_calls'),
                          toml_content |-> TestCandidate(test_fix_calls')]
       IN  /\ workdir' = probe_files(workdir, fix_result)
           /\ test_current_rust_code' = fix_result.rust_code
           /\ test_current_toml_content' = fix_result.toml_content
           /\ \E outcome \in TestServerOutcomes :
                /\ spawn_calls' = IF spawns_server(outcome)
                                  THEN spawn_calls + 1 ELSE spawn_calls
                /\ IF outcome = "pass"
                   THEN /\ ctx' = Put(Put(Put([ctx EXCEPT
                              !.build.rust_code = fix_result.rust_code,
                              !.build.toml_content = fix_result.toml_content],
                              "test_success", TRUE),
                              "test_error", None),
                              "test_info", outcome)
                        /\ tpc' = "idle"
                        /\ ppc' = ppc + 1
                        /\ UNCHANGED tattempt
                   ELSE /\ ctx' = Put(Put(ctx, "test_error", outcome),
                                      "test_info", outcome)
                        /\ tattempt' = tattempt + 1
                        /\ UNCHANGED <<tpc, ppc>>
    /\ UNCHANGED <<mret, final_result, stages, loop_outcome, vflVars,
                   verifyVars, stateVars>>
    /\ UNCHANGED <<bpc, binputs, current_rust_code, current_toml_content,
                   battempt, clippy_error, build_result, check_calls,
                   check_passes, clippy_calls, clippy_passes,
                   compile_fix_calls, clippy_fix_calls, build_fix_args,
                   prepare_calls>>
    /\ UNCHANGED <<enabled_workflows, runs, toolVars>>

\* the loop ends without a passing test
TestLoopExhausted ==
    /\ step(ppc) = "handle_tests"
    /\ tpc = "loop" /\ ~test_in_range(tattempt)
    /\ ctx' = [ctx EXCEPT !.build.rust_code = test_current_rust_code,
                          !.build.toml_content = test_current_toml_content]
    /\ tpc' = "idle"
    /\ ppc' = ppc + 1
    /\ UNCHANGED <<mret, final_result, tattempt, test_current_rust_code,
                   test_current_toml_content, stages, loop_outcome,
                   spawn_calls, test_fix_calls, vflVars, verifyVars,
                   buildVars, stateVars>>
    /\ UNCHANGED <<enabled_workflows, runs, toolVars>>

\* _format_final_result, and migrate's return of _extract_result(result)
FormatFinalResult ==
    /\ step(ppc) = "format"
    /\ LET build_info == IF HasKey(ctx, "build") THEN ctx.build
                         ELSE [rust_code |-> None, toml_content |-> None]
           build_success ==
               IF enabled_workflows = {"test"}
               THEN /\ HasKey(build_info, "rust_code")
                    /\ build_info.rust_code # None
               ELSE HasKey(build_info, "success") /\ build_info.success
           code_result ==
               IF HasKey(ctx, "code") THEN ctx.code ELSE EmptyDict
           st == update_best_result(MigrationState, code_result,
                                    build_info.rust_code,
                                    build_info.toml_content)
           result ==
               [success |-> build_success /\ ~HasKey(ctx, "test"),
                rust_code |-> build_info.rust_code,
                toml_content |-> build_info.toml_content,
                output_dir |-> "output_dir",
                metrics |->
                    [test_success |-> HasKey(ctx, "test") /\ ctx.test.success,
                     verification_score |-> st.best_verification_score]]
       IN  /\ best_verification_score' = st.best_verification_score
           /\ state_best_result' = st.best_result
           /\ ubr_calls' = ubr_calls + 1
           /\ ubr_args' = [verification_result |-> code_result,
                           rust_code |-> build_info.rust_code,
                           toml_content |-> build_info.toml_content]
           /\ ubr_score' = update_score(code_result)
           /\ final_result' = result
           /\ mret' = extract_result(result)
    /\ ppc' = End
    /\ UNCHANGED <<ctx, spc, current_analysis, latest_generation,
                   last_verification_result, testLocals, stages, loop_outcome,
                   spawn_calls, test_fix_calls, vflVars, verifyVars,
                   buildVars>>
    /\ UNCHANGED <<enabled_workflows, runs, toolVars>>

\* a further call of migrate on the same agent, once the previous call has
\* returned: the chain is invoked on a new initial_context; self.state is
\* the object __init__ made
MigrateAgain ==
    /\ ppc = End
    /\ runs < MaxRuns
    /\ runs' = runs + 1
    /\ ppc' = 1
    /\ ctx' = [python_code |-> "python_code", output_dir |-> "output_dir"]
    /\ mret' = None
    /\ final_result' = None
    /\ stages' = <<>>
    /\ loop_outcome' = None
    /\ UNCHANGED <<testLocals, spawn_calls, test_fix_calls, enabled_workflows,
                   stateVars, vflVars, verifyVars, buildVars, toolVars>>

\* ------------------------------------------------------------ RustBuilder
\* build_timeout: 300 by default, 1 in test_build_timeout
BuildTimeouts == {1, 300}

\* the operations that run a command
Operations == {"build", "check", "test", "clippy"}

\* process.returncode of a command that finished
ReturnCodes == {0, 1, 101}

\* decoded stdout / stderr of a command that finished
Outputs == {"", "output"}

\* an exception: its type, its message, the number formatted into it
Exc(type, text, n) == [exc |-> type, text |-> text, seconds |-> n]

\* str(e): the message of the exception, its type is not part of it
str(e) == [text |-> e.text, seconds |-> e.seconds]

\* a mutation: the timeout is reported as a failure of the command
timeout_error_generic(n) == Exc("RuntimeError", "Command failed", 0)

\* TimeoutError(f"Command timed out after {self.build_timeout} seconds")
timeout_error(n) == Exc("TimeoutError", "Command timed out after", n)

\* what build / check / test / clippy return for what _run_command
\* returned or raised
operation_result(cmd) ==
    IF cmd.kind = "raise"
    THEN [success |-> FALSE, error |-> str(cmd.exc),
          info |-> [error |-> str(cmd.exc)]]
    ELSE IF cmd.returncode = 0
    THEN [success |-> TRUE, error |-> None,
          info |-> [success |-> TRUE]]
    ELSE [success |-> FALSE, error |-> [text |-> cmd.stderr, seconds |-> 0],
          info |-> [success |-> FALSE]]

\* RustBuilder(output_dir, build_timeout), no operation called yet
harnessStart ==
    /\ hchild = "none"
    /\ hcmd = None
    /\ hresult = None
    /\ hkill_calls = 0
    /\ htimed_out = FALSE

harnessIdle ==
    /\ hpc = "idle"
    /\ hop = "build"
    /\ build_timeout = 300
    /\ harnessStart

\* prepare_project at the start of the operation: it re-raises, and the
\* operation returns (False, str(e), {"error": str(e)})
PrepareProject ==
    /\ hpc = "prepare"
    /\ \/ /\ hresult' = operation_result(
                 [kind |-> "raise",
                  exc |-> Exc("OSError", "Failed to prepare project", 0)])
          /\ hpc' = "done"
       \/ /\ hpc' = "spawn"
          /\ UNCHANGED hresult
    /\ UNCHANGED <<hop, build_timeout, hchild, hcmd, hkill_calls, htimed_out,
                   vflVars, verifyVars, buildVars, stateVars, pipeVars,
                   probeVars>>

\* _run_command: create_subprocess_exec starts the process, or raises
RunCommand ==
    /\ hpc = "spawn"
    /\ \/ /\ hchild' = "running"
          /\ hpc' = "communicate"
          /\ UNCHANGED hcmd
       \/ /\ hcmd' = [kind |-> "raise",
                      exc |-> Exc("FileNotFoundError",
                                  "No such file or directory", 0)]
          /\ hpc' = "returned"
          /\ UNCHANGED hchild
    /\ UNCHANGED <<hop, build_timeout, hresult, hkill_calls, htimed_out,
                   vflVars, verifyVars, buildVars, stateVars, pipeVars,
                   probeVars>>

\* _run_command: communicate() finishes within build_timeout
CommandCompletes ==
    /\ hpc = "communicate"
    /\ hchild' = "exited"
    /\ \E returncode \in ReturnCodes, stdout \in Outputs, stderr \in Outputs :
         hcmd' = [kind |-> "return", returncode |-> returncode,
                  stdout |-> stdout, stderr |-> stderr]
    /\ hpc' = "returned"
    /\ UNCHANGED <<hop, build_timeout, hresult, hkill_calls, htimed_out,
                   vflVars, verifyVars, buildVars, stateVars, pipeVars,
                   probeVars>>

\* _run_command: wait_for raises asyncio.TimeoutError; process.kill(), then
\* raise TimeoutError(...), which the outer except logs and re-raises
CommandTimesOut ==
    /\ hpc = "communicate"
    /\ htimed_out' = TRUE
    /\ hkill_calls' = hkill_calls + 1
    /\ hchild' = "killed"
    /\ hcmd' = [kind |-> "raise", exc |-> timeout_error(build_timeout)]
    /\ hpc' = "returned"
    /\ UNCHANGED <<hop, build_timeout, hresult,
                   vflVars, verifyVars, buildVars, stateVars, pipeVars,
                   probeVars>>

\* the operation after _run_command: its except branch on an exception; the
\* tuple for the return code otherwise (build writes build.log first, and
\* ends in its except branch when that raises)
OperationReturns ==
    /\ hpc = "returned"
    /\ \/ hresult' = operation_result(hcmd)
       \/ /\ hop = "build"
          /\ hcmd.kind = "return"
          /\ hresult' = operation_result(
                 [kind |-> "raise",
                  exc |-> Exc("OSError", "Failed to write build.log", 0)])
    /\ hpc' = "done"
    /\ UNCHANGED <<hop, build_timeout, hchild, hcmd, hkill_calls, htimed_out,
                   vflVars, verifyVars, buildVars, stateVars, pipeVars,
                   probeVars>>

\* ----------------------------------------------------------- ServerTester
notProbe == <<harnessVars, vflVars, verifyVars, buildVars, stateVars,
              pipeVars>>

\* _check_log_for_errors: the number of lines it returns; [] without a
\* log file
check_log_for_errors(lf, sig) == IF lf = None THEN 0 ELSE sig

\* a mutation: the iteration does not look at process.returncode
poll_outcome_without_returncode(errors, returncode_set) ==
    IF errors > 0 THEN "log_signature" ELSE "get"

\* one iteration of _wait_for_server up to the GET: errors in the log,
\* then the return code of the process, are grounds to return False
poll_outcome(errors, returncode_set) ==
    IF errors > 0 THEN "log_signature"
    ELSE IF returncode_set THEN "early_exit"
    ELSE "get"

\* a mutation: the test script is run whatever the wait returned
after_wait_always_script(ready) == "script"

\* test_server: if not await self._wait_for_server(): return ...
after_wait(ready) == IF ready THEN "script" ELSE "finally"

\* a mutation: the finally of _stop_server leaves the file object alone
close_log_skipped(h) == h

\* the finally of _stop_server: flush and close the file unless closed
close_log(h) == IF h = "open" THEN "closed" ELSE h

\* a mutation: no except clause in _stop_server
swallowed_none == {}

\* the exceptions the except clauses of _stop_server pass over
swallowed == {"ProcessLookupError", "NoSuchProcess", "AccessDenied"}

\* the exception that leaves _stop_server, None for a swallowed one
escaped(exc) == IF exc \in swallowed THEN None ELSE [exc |-> exc]

\* the message of a failure and the log contents put into it
Msg(text, log_content) == [text |-> text, log |-> log_content]

\* test_server, the except branches for _validate_test_script
validation_failed(e) ==
    IF e = "not_found"
    THEN [success |-> FALSE, error |-> Msg("Test script not found", 0),
          results |-> [error |-> "test script not found"]]
    ELSE [success |-> FALSE, error |-> Msg("Test script is not executable", 0),
          results |-> [error |-> "test script not executable"]]

\* test_server, lines 301-312: what it returns when the wait returned False
startup_failed(log_content, errors) ==
    [success |-> FALSE, error |-> Msg("Server failed to start", log_content),
     results |-> [log_file |-> "server.log", server_errors |-> errors]]

\* except Exception of test_server
exception_result(text) ==
    [success |-> FALSE, error |-> Msg(text, 0), results |-> EmptyDict]

\* the except branch of _run_test_script (the script could not be started)
\* and lines 315-321 of test_server
script_not_started(errors) ==
    [success |-> FALSE, error |-> Msg("Test script failed", 0),
     results |-> [error |-> "Failed to run test script",
                  server_errors |-> errors]]

\* _run_test_script and lines 315-323 of test_server
script_result(success, exit_code, errors) ==
    IF success
    THEN [success |-> TRUE, error |-> None,
          results |-> [exit_code |-> exit_code, server_errors |-> errors]]
    ELSE [success |-> FALSE, error |-> Msg("Test script failed", 0),
          results |-> [exit_code |-> exit_code, server_errors |-> errors]]

\* results["server_errors"] is the list self.log_errors itself: entries
\* added to it later are seen through the returned dict
with_server_errors(r, errors) ==
    IF HasKey(r, "results") /\ HasKey(r.results, "server_errors")
    THEN [r EXCEPT !.results = [r.results EXCEPT !.server_errors = errors]]
    ELSE r

\* ServerTester(): nothing started
probeStart ==
    /\ process = None
    /\ log_file = None
    /\ log_errors = 0
    /\ polls = 0
    /\ ret = None
    /\ log_handle = "none"
    /\ child = "none"
    /\ descendant = "none"
    /\ log_sig = 0
    /\ probe_events = <<>>
    /\ signals = <<>>
    /\ stop_calls = 0
    /\ stop_error = None
    /\ cause = "running"
    /\ last_check = None
    /\ sig_at_ready = 0
    /\ script_obs = None
    /\ prev_ret = None
    /\ prev_cause = "none"

probeIdle == probe_pc = "idle" /\ probe_runs = 0 /\ probeStart

\* _validate_test_script: FileNotFoundError or PermissionError, caught by
\* the except branches of test_server
ValidateTestScript ==
    /\ probe_pc = "validate"
    /\ \/ /\ probe_pc' = "run_server"
          /\ UNCHANGED <<ret, cause>>
       \/ \E e \in {"not_found", "not_executable"} :
            /\ ret' = validation_failed(e)
            /\ cause' = e
            /\ probe_pc' = "finally"
    /\ UNCHANGED <<testerVars, polls, child, descendant, log_sig,
                   probe_events, signals, stop_calls, stop_error, last_check,
                   sig_at_ready, script_obs, probe_runs, prev_ret, prev_cause,
                   notProbe>>

\* _run_server: server.log is opened for writing, "cargo run --release" is
\* started in a session of its own and the handles are stored; or open or
\* create_subprocess_exec raises, the file is closed if it was opened, and
\* test_server returns (False, str(e), {})
RunServer ==
    /\ probe_pc = "run_server"
    /\ \/ /\ process' = [pid |-> 1]
          /\ log_file' = [name |-> "server.log"]
          /\ log_handle' = "open"
          /\ log_sig' = 0
          /\ child' = "running"
          /\ descendant' \in {"none", "running"}
          /\ probe_events' = Append(probe_events, "spawn")
          /\ probe_pc' = "poll"
          /\ UNCHANGED <<ret, cause>>
       \/ \E opened \in BOOLEAN :
            /\ log_handle' = IF opened THEN "closed" ELSE log_handle
            /\ log_sig' = IF opened THEN 0 ELSE log_sig
            /\ ret' = exception_result("Failed to start server")
            /\ cause' = "spawn_failed"
            /\ probe_pc' = "finally"
            /\ UNCHANGED <<process, log_file, child, descendant,
                           probe_events>>
    /\ UNCHANGED <<log_errors, polls, signals, stop_calls, stop_error,
                   last_check, sig_at_ready, script_obs, probe_runs,
                   prev_ret, prev_cause, notProbe>>

\* _wait_for_server: the loop condition, then the checks an iteration
\* makes before its GET
PollCheck ==
    /\ probe_pc = "poll"
    /\ IF polls >= MaxPolls
       THEN /\ cause' = "timeout"
            /\ ret' = startup_failed(log_sig, log_errors)
            /\ probe_pc' = after_wait(FALSE)
            /\ UNCHANGED <<log_errors, last_check, polls>>
       ELSE LET errors == check_log_for_errors(log_file, log_sig)
                returncode_set == process # None /\ child = "exited"
                outcome == poll_outcome(errors, returncode_set)
            IN  /\ last_check' = [sig |-> errors > 0,
                                  exited |-> returncode_set]
                /\ log_errors' = IF outcome = "log_signature"
                                 THEN log_errors + errors ELSE log_errors
                /\ IF outcome = "get"
                   THEN /\ probe_pc' = "get"
                        /\ polls' = polls + 1
                        /\ UNCHANGED <<ret, cause>>
                   ELSE /\ cause' = outcome
                        /\ ret' = startup_failed(log_sig, log_errors')
                        /\ probe_pc' = after_wait(FALSE)
                        /\ UNCHANGED polls
    /\ UNCHANGED <<process, log_file, log_handle, child, descendant, log_sig,
                   probe_events, signals, stop_calls, stop_error,
                   sig_at_ready, script_obs, probe_runs, prev_ret, prev_cause,
                   notProbe>>

\* _wait_for_server: the GET of an iteration. It raises (the iteration
\* sleeps and continues) or answers another status than 200 (the loop goes
\* on); or a process of the group answers 200 and the wait returns True
PollGet ==
    /\ probe_pc = "get"
    /\ \/ /\ probe_pc' = "poll"
          /\ UNCHANGED <<probe_events, sig_at_ready>>
       \/ /\ child = "running" \/ descendant = "running"
          /\ probe_events' = Append(probe_events, "ready")
          /\ sig_at_ready' = log_sig
          /\ probe_pc' = after_wait(TRUE)
    /\ UNCHANGED <<testerVars, polls, ret, child, descendant, log_sig,
                   signals, stop_calls, stop_error, cause, last_check,
                   script_obs, probe_runs, prev_ret, prev_cause, notProbe>>

\* _run_test_script and the return of test_server: the script cannot be
\* started; or it ends with an exit code, the log is checked and
\* success = process.returncode == 0 and not current_errors
RunTestScript ==
    /\ probe_pc = "script"
    /\ probe_events' = Append(probe_events, "probe")
    /\ \/ /\ ret' = script_not_started(log_errors)
          /\ cause' = "script_error"
          /\ UNCHANGED <<log_errors, script_obs>>
       \/ \E exit_code \in {0, 1} :
            LET current_errors == check_log_for_errors(log_file, log_sig)
                success == exit_code = 0 /\ current_errors = 0
            IN  /\ log_errors' = log_errors + current_errors
                /\ script_obs' = [exit_code |-> exit_code, sig |-> log_sig]
                /\ ret' = script_result(success, exit_code, log_errors')
                /\ cause' = IF success THEN "pass" ELSE "script_failed"
    /\ probe_pc' = "finally"
    /\ UNCHANGED <<process, log_file, log_handle, polls, child, descendant,
                   log_sig, signals, stop_calls, stop_error, last_check,
                   sig_at_ready, probe_runs, prev_ret, prev_cause, notProbe>>

\* _wait_for_server raises outside the try of its GET (reading server.log
\* for a message, opening the HTTP session): except Exception of
\* test_server returns (False, str(e), {})
WaitRaises ==
    /\ probe_pc = "poll"
    /\ ret' = exception_result("Server testing failed")
    /\ cause' = "exception"
    /\ probe_pc' = "finally"
    /\ UNCHANGED <<testerVars, polls, child, descendant, log_sig,
                   probe_events, signals, stop_calls, stop_error, last_check,
                   sig_at_ready, script_obs, probe_runs, prev_ret, prev_cause,
                   notProbe>>

\* the task running test_server is cancelled while it awaits the GET or
\* the test script: CancelledError passes the except clauses
Cancel ==
    /\ probe_pc \in {"get", "script"}
    /\ ret' = [raised |-> "CancelledError"]
    /\ cause' = "cancelled"
    /\ probe_pc' = "finally"
    /\ UNCHANGED <<testerVars, polls, child, descendant, log_sig,
                   probe_events, signals, stop_calls, stop_error, last_check,
                   sig_at_ready, script_obs, probe_runs, prev_ret, prev_cause,
                   notProbe>>

\* _stop_server. Without a process handle it returns after the log check.
\* Otherwise: the child was reaped, psutil.Process or os.getpgid raises and
\* no signal is sent; or SIGTERM goes to the group and the child ends
\* within the 5 seconds of process.wait, a descendant may or may not; or
\* the wait times out and SIGKILL goes to the group; or os.killpg raises
\* PermissionError (EPERM), which no except clause names. The finally
\* closes the log and clears the handles. stop_error is the exception
\* that leaves this call.
stop_server ==
    LET final_errors == check_log_for_errors(log_file, log_sig)
    IN  /\ log_errors' = log_errors + final_errors
        /\ ret' = with_server_errors(ret, log_errors')
        /\ stop_calls' = stop_calls + 1
        /\ probe_events' = Append(probe_events, "teardown")
        /\ IF process = None
           THEN /\ stop_error' = None
                /\ UNCHANGED <<process, log_file, log_handle, child,
                               descendant, signals>>
           ELSE /\ \/ /\ child = "exited"
                      /\ \E exc \in {"NoSuchProcess", "ProcessLookupError"} :
                           stop_error' = escaped(exc)
                      /\ UNCHANGED <<child, descendant, signals>>
                   \/ /\ child = "running"
                      /\ signals' = Append(signals, "SIGTERM")
                      /\ child' = "exited"
                      /\ descendant' \in
                             IF descendant = "running"
                             THEN {"running", "exited"} ELSE {descendant}
                      /\ stop_error' = None
                   \/ /\ child = "running"
                      /\ signals' = signals \o <<"SIGTERM", "SIGKILL">>
                      /\ child' = "exited"
                      /\ descendant' = IF descendant = "running"
                                       THEN "exited" ELSE descendant
                      /\ stop_error' = None
                   \/ /\ child = "running"
                      /\ stop_error' = escaped("PermissionError")
                      /\ UNCHANGED <<child, descendant, signals>>
                /\ log_handle' = close_log(log_handle)
                /\ process' = None
                /\ log_file' = None

\* the finally of test_server
StopServer ==
    /\ probe_pc = "finally"
    /\ stop_server
    /\ probe_pc' = "done"
    /\ UNCHANGED <<polls, log_sig, cause, last_check, sig_at_ready,
                   script_obs, probe_runs, prev_ret, prev_cause, notProbe>>

\* __aexit__: _stop_server is called once more
AExit ==
    /\ probe_pc = "done"
    /\ stop_server
    /\ probe_pc' = "exited"
    /\ UNCHANGED <<polls, log_sig, cause, last_check, sig_at_ready,
                   script_obs, probe_runs, prev_ret, prev_cause, notProbe>>

\* a further call of test_server on the same tester (TestWorkflow calls it
\* for every fixed candidate): self.log_errors = []
TestServerAgain ==
    /\ probe_pc = "done"
    /\ probe_runs < MaxProbeRuns
    /\ probe_runs' = probe_runs + 1
    /\ prev_ret' = ret
    /\ prev_cause' = cause
    /\ log_errors' = 0
    /\ polls' = 0
    /\ ret' = None
    /\ probe_events' = <<>>
    /\ signals' = <<>>
    /\ stop_calls' = 0
    /\ cause' = "running"
    /\ last_check' = None
    /\ sig_at_ready' = 0
    /\ script_obs' = None
    /\ probe_pc' = "validate"
    /\ stop_error' = None
    /\ UNCHANGED <<process, log_file, log_handle, child, descendant, log_sig,
                   notProbe>>

\* the operating system: the child ends (and is reaped: its return code is
\* set), with or without the process it started
ChildExits ==
    /\ probe_pc \in {"poll", "get", "script", "finally"}
    /\ child = "running"
    /\ child' = "exited"
    /\ descendant' \in IF descendant = "running"
                       THEN {"running", "exited"} ELSE {descendant}
    /\ UNCHANGED <<probe_pc, testerVars, polls, ret, log_sig, probeObs,
                   notProbe>>

\* the operating system: a process of the group writes a line matching a
\* failure signature to server.log
LogWrite ==
    /\ probe_pc \in {"poll", "get", "script", "finally"}
    /\ child = "running" \/ descendant = "running"
    /\ log_sig < MaxSigLines
    /\ log_sig' = log_sig + 1
    /\ UNCHANGED <<probe_pc, testerVars, polls, ret, child, descendant,
                   probeObs, notProbe>>

loopInit ==
    /\ pc = "run_verification"
    /\ inputs = [python_code |-> "python_code", analysis |-> "analysis",
                 rust_code |-> 0, toml_content |-> 0]
    /\ verification_result = None
    /\ best_result = None
    /\ best_score = NegInf
    /\ attempt = 0
    /\ score = Fin(0)
    /\ log = {}
    /\ fix_calls = 0
    /\ verify_calls = 0
    /\ fix_args = None
    /\ attempts_scored = {}
    /\ max_score_seen = NegInf
    /\ max_ids = {}
    /\ scenario = 0
    /\ entry_inputs = None

\* the migration workflow, not started
loopIdle == loopInit

\* the builder and the tester, not used
toolIdle == harnessIdle /\ probeIdle

Init ==
    /\ loopInit /\ verifyIdle /\ buildIdle /\ stateIdle /\ pipeIdle
    /\ toolIdle

Next ==
    \/ RunVerification
    \/ ApplyFixesEntry
    \/ FixRaises
    \/ VerifyRaises
    \/ AttemptScored
    \/ AfterLoop

Spec == Init /\ [][Next]_vars

FairSpec == Spec /\ WF_vars(Next)

InitBuild ==
    /\ loopIdle /\ verifyIdle /\ stateIdle /\ pipeIdle
    /\ bpc = "cargo_check" /\ buildStart
    /\ toolIdle

NextBuild ==
    \/ RunCargoCheck
    \/ ApplyBuildFixesEntry
    \/ BuildFixRaises
    \/ BuildFixChecked
    \/ BuildLoopExhausted
    \/ RunClippy
    \/ ApplyClippyFixesEntry
    \/ ClippyFixRaises
    \/ ClippyFixChecked
    \/ ClippyLoopExhausted
    \/ EnsureBuildOutput

SpecBuild == InitBuild /\ [][NextBuild]_vars

\* ------------------------------------- verify and the score on their own
\* the call of verify on the oracle's answer
Verify ==
    /\ vpc = "raw"
    /\ verified' = verify(raw_answer, 0)
    /\ vpc' = "verified"
    /\ UNCHANGED <<raw_answer, fix_score, vflVars, buildVars,
                   stateVars, pipeVars,
                   toolVars>>

\* the call of _calculate_fix_score on the result
CalculateFixScore ==
    /\ vpc = "verified"
    /\ fix_score' = calculate_fix_score(verified)
    /\ vpc' = "scored"
    /\ UNCHANGED <<raw_answer, verified, vflVars, buildVars,
                   stateVars, pipeVars,
                   toolVars>>

InitVerify ==
    /\ loopIdle
    /\ buildIdle
    /\ stateIdle
    /\ pipeIdle
    /\ vpc = "raw"
    /\ toolIdle
    /\ raw_answer \in RawAnswers
    /\ verified = None
    /\ fix_score = Fin(0)

NextVerify == Verify \/ CalculateFixScore

SpecVerify == InitVerify /\ [][NextVerify]_vars

\* ------------------------------------------- MigrationState on its own
\* MigrationState is a dataclass: best_verification_score is a field its
\* constructor takes, 0.0 when omitted.
InitState ==
    /\ loopIdle /\ verifyIdle /\ buildIdle /\ pipeIdle
    /\ spc = "ready"
    /\ toolIdle
    /\ best_verification_score \in (0 - 2 * MaxIssues)..0
    /\ state_best_result = None
    /\ current_analysis = None
    /\ latest_generation = None
    /\ last_verification_result = None
    /\ ubr_calls = 0
    /\ ubr_args = None
    /\ ubr_score = 0

NextState == UpdateBestResult

SpecState == InitState /\ [][NextState]_vars

\* self.state = MigrationState() in MigrationAgent.__init__, the only
\* place where the program makes a MigrationState: the defaults, then
\* calls of update_best_result
InitStateDefault ==
    /\ loopIdle /\ verifyIdle /\ buildIdle /\ pipeIdle
    /\ spc = "ready"
    /\ toolIdle
    /\ stateStart

SpecStateDefault == InitStateDefault /\ [][NextState]_vars

\* ------------------------------------------- one run of migrate
\* MigrationAgent() and setup(): a fresh MigrationState, the workflows not
\* started; migrate(python_code) invokes the chain at its first step
InitPipeline ==
    /\ loopIdle /\ verifyIdle /\ buildIdle /\ stateIdle
    /\ enabled_workflows = AllWorkflows
    /\ toolIdle
    /\ runs = 1
    /\ ppc = 1
    /\ pipeStart

NextPipeline ==
    \/ RunAnalysis
    \/ RunGeneration
    \/ RunInitialVerification
    \/ ApplyFixesIfNeeded
    \/ MaybeProceedToBuild
    \/ InvokeBuildWorkflow
    \/ NextBuild
    \/ ReturnBuildResult
    \/ MaybeProceedToTest
    \/ CheckRustInstallation
    \/ RunServerTests
    \/ HandleTestResultsEntry
    \/ TestFixRaises
    \/ TestFixTested
    \/ TestLoopExhausted
    \/ FormatFinalResult

SpecPipeline == InitPipeline /\ [][NextPipeline]_vars

\* ------------------------------- several runs of migrate on one agent
\* MigrationAgent(workflows=["migration"]) and setup(), then migrate
\* called up to MaxRuns times
InitRuns ==
    /\ loopIdle /\ verifyIdle /\ buildIdle /\ stateIdle
    /\ enabled_workflows = {"migration"}
    /\ toolIdle
    /\ runs = 1
    /\ ppc = 1
    /\ pipeStart

NextRuns ==
    \/ RunAnalysis
    \/ RunGeneration
    \/ RunInitialVerification
    \/ ApplyFixesIfNeeded
    \/ MaybeProceedToBuild
    \/ FormatFinalResult
    \/ MigrateAgain

SpecRuns == InitRuns /\ [][NextRuns]_vars

\* ------------------------------------- RustBuilder, one operation
\* RustBuilder(output_dir, build_timeout) and a call of one of its
\* operations
InitHarness ==
    /\ loopIdle /\ verifyIdle /\ buildIdle /\ stateIdle /\ pipeIdle
    /\ probeIdle
    /\ hpc = "prepare"
    /\ hop \in Operations
    /\ build_timeout \in BuildTimeouts
    /\ harnessStart

NextHarness ==
    \/ PrepareProject
    \/ RunCommand
    \/ CommandCompletes
    \/ CommandTimesOut
    \/ OperationReturns

SpecHarness == InitHarness /\ [][NextHarness]_vars

\* ------------------------------------- ServerTester, test_server runs
\* ServerTester() and calls of test_server, then __aexit__
InitProbe ==
    /\ loopIdle /\ verifyIdle /\ buildIdle /\ stateIdle /\ pipeIdle
    /\ harnessIdle
    /\ probe_pc = "validate"
    /\ probe_runs = 1
    /\ probeStart

NextProbe ==
    \/ ValidateTestScript
    \/ RunServer
    \/ PollCheck
    \/ PollGet
    \/ WaitRaises
    \/ RunTestScript
    \/ Cancel
    \/ StopServer
    \/ AExit
    \/ TestServerAgain
    \/ ChildExits
    \/ LogWrite

SpecProbe == InitProbe /\ [][NextProbe]_vars

\* the steps of test_server the event loop takes by itself: the validation,
\* the spawn, the iterations of the wait (the GET has timeout=1, the loop
\* ends at startup_timeout) and the teardown (process.wait(timeout=5)).
\* RunTestScript is the return of "await process.communicate()", which has
\* no timeout: it is taken when the script ends, and nothing makes it end.
FairProbe ==
    /\ SpecProbe
    /\ WF_vars(ValidateTestScript)
    /\ WF_vars(RunServer)
    /\ WF_vars(PollCheck \/ PollGet)
    /\ WF_vars(StopServer)

\* ================================================================ claims
Max(S) == CHOOSE x \in S : \A y \in S : y <= x
Min(S) == CHOOSE x \in S : \A y \in S : x <= y

\* the loop returned after using all its attempts, none of which matched
Exhausted ==
    /\ pc = "done"
    /\ fix_calls = max_fix_attempts
    /\ max_score_seen # PosInf

\* the candidate the next fix call must build on: the fixed candidate of the
\* latest attempt that was re-verified and scored, the initial one if none
LatestCompleted == Max(attempts_scored \cup {0})

\* C1: whenever the loop has returned, the candidate it returns is one of the
\* fixed candidates that were given the greatest score of the run (so its
\* score is >= the score of every fixed candidate that was re-verified),
\* also when the last attempt scored worse than an earlier one.
C1_BestRetained ==
    (pc = "done" /\ attempts_scored # {}) =>
        /\ inputs.rust_code \in max_ids
        /\ inputs.toml_content = inputs.rust_code

\* C1 witness: the loop has returned, the last attempt was scored and is not
\* the candidate returned (it regressed).
C1_Witness ==
    /\ Exhausted
    /\ max_fix_attempts \in attempts_scored
    /\ max_fix_attempts \notin max_ids
    /\ inputs.rust_code < max_fix_attempts

\* C2: after exhaustion without a match the returned candidate is the one of
\* the earliest attempt that reached the greatest score; when the leading
\* attempts scored -4, -1, -6 and no later attempt scored better, it is the
\* candidate of attempt 2.
C2_EarliestBest ==
    (Exhausted /\ attempts_scored # {}) =>
        /\ inputs.rust_code = Min(max_ids)
        /\ (scenario = Len(ScenarioD) /\ max_score_seen = ScenarioD[2])
              => inputs.rust_code = 2

\* C2 witness: scenario D was played, a later attempt only equalled the
\* score -1, and the candidate of attempt 2 is returned.
C2_Witness ==
    /\ Exhausted
    /\ scenario = Len(ScenarioD)
    /\ max_ids = {2, 4}
    /\ inputs.rust_code = 2

\* C3: when the initial verification matches, the loop returns its inputs
\* unchanged after no fix call and no verify call beyond the initial one.
C3_NoFixOnMatch ==
    (pc = "done" /\ entry_inputs.verification.matches) =>
        /\ fix_calls = 0
        /\ verify_calls = 1
        /\ inputs = entry_inputs

\* C3 witness: the loop returned on an initial verification that matches.
C3_Witness ==
    /\ pc = "done"
    /\ entry_inputs.verification.matches
    /\ inputs.rust_code = 0

\* C4: the loop makes at most max_fix_attempts fix calls and at most
\* max_fix_attempts + 1 verify calls, has returned as soon as a
\* re-verification matched (after one fix call and two verify calls when it is
\* the first), and, once entered, always returns.
C4_BoundedTermination ==
    /\ [](fix_calls <= max_fix_attempts /\ verify_calls <= max_fix_attempts + 1)
    /\ [](max_score_seen = PosInf => pc = "done")
    /\ []((pc = "done" /\ max_score_seen = PosInf /\ 1 \in max_ids)
            => (fix_calls = 1 /\ verify_calls = 2))
    /\ ((pc = "apply_fixes") ~> (pc = "done"))

\* C4 witness: the first re-verification matched and the loop has returned.
C4_Witness ==
    /\ pc = "done"
    /\ max_score_seen = PosInf
    /\ 1 \in max_ids
    /\ fix_calls = 1
    /\ verify_calls = 2

\* C5 (as claimed): the verification result returned is the verification of
\* the candidate returned, on every exit path.
C5_PairedResult ==
    pc = "done" => inputs.verification.of = inputs.rust_code

\* C6: every fix call receives the candidate and the verification result of
\* the latest attempt that completed (the initial ones if none did).
C6_LatestIsNextInput ==
    [][fix_calls' # fix_calls =>
         fix_args' = [rust_code |-> LatestCompleted,
                      toml_content |-> LatestCompleted,
                      verification_of |-> LatestCompleted]]_vars

\* C6 witness: a fix call received the candidate of attempt 2 while the
\* recorded best was the candidate of attempt 1.
C6_Witness ==
    /\ fix_args # None
    /\ best_result # None
    /\ fix_args.rust_code = 2
    /\ fix_args.verification_of = 2
    /\ best_result.rust_code = 1

\* C7 (as claimed): when no attempt was scored, the result returned is the
\* original candidate and carries a marker, so it differs from the inputs.
C7_MarkedResult ==
    (pc = "done" /\ fix_calls = max_fix_attempts /\ attempts_scored = {}) =>
        /\ inputs.rust_code = 0
        /\ inputs # entry_inputs

\* C7 (amended): when no attempt was scored, the loop returns its inputs
\* exactly as it received them (the original candidate, the initial
\* verification result, no marker); only a warning is logged.
C7_UnmarkedResult ==
    (pc = "done" /\ fix_calls = max_fix_attempts /\ attempts_scored = {}) =>
        /\ inputs = entry_inputs
        /\ inputs.rust_code = 0
        /\ "No successful fixes achieved" \in log

\* C7 witness: every attempt failed and the loop has returned.
C7_Witness ==
    /\ pc = "done"
    /\ fix_calls = max_fix_attempts
    /\ attempts_scored = {}
    /\ verify_calls > 1

\* the issues of a verification result, one element per issue
IssueSlots(v, cats) ==
    {<<c, i>> \in cats \X (1..(MaxIssues + MaxDictEntries + 1)) :
        i <= v.critical_differences[c].n}

\* C8: the score is +infinity when matches is true, and otherwise minus the
\* number of issues, those of category "core" counted twice.
C8_ScoreFormula ==
    vpc = "scored" =>
        fix_score =
          IF verified.matches THEN PosInf
          ELSE Fin(0 - Cardinality(IssueSlots(verified, Categories))
                     - Cardinality(IssueSlots(verified, {"core"})))

\* C8 witness: a result that does not match, with issues in "core" and in
\* another category, was scored.
C8_Witness ==
    /\ vpc = "scored"
    /\ ~verified.matches
    /\ verified.critical_differences["core"].n > 0
    /\ verified.critical_differences["routing"].n > 0

\* C9 (as claimed): matches is true iff the value of every category is empty.
C9_MatchesIffAllEmpty ==
    vpc \in {"verified", "scored"} =>
        (verified.matches <=>
            \A c \in Categories : verified.critical_differences[c].n = 0)

\* C9 (amended): matches is true iff every category whose value is a list has
\* an empty list; a value that is not a list never counts.
C9_MatchesIffListsEmpty ==
    vpc \in {"verified", "scored"} =>
        (verified.matches <=>
            \A c \in Categories :
                verified.critical_differences[c].isList
                    => verified.critical_differences[c].n = 0)

\* C9 witness: verify returned matches = true for an answer with a non-empty
\* value that is not a list.
C9_Witness ==
    /\ vpc = "verified"
    /\ verified.matches
    /\ \E c \in Categories :
         /\ ~verified.critical_differences[c].isList
         /\ verified.critical_differences[c].n > 0

\* C10: once the compilation fix sub-loop has made all its fix calls and no
\* check has passed, clippy is never called, and the BuildResult, once
\* built, has success = false.
C10_NoLintAfterFailedCompilation ==
    (compile_fix_calls = build_max_fix_attempts /\ check_passes = 0) =>
        /\ clippy_calls = 0
        /\ clippy_fix_calls = 0
        /\ build_result # None => ~build_result.success
        /\ bpc = "done" => build_result # None

\* C10 witness: a build run has ended after the compilation sub-loop used
\* all its attempts, the last of them on a candidate that failed its check.
C10_Witness ==
    /\ bpc = "done"
    /\ compile_fix_calls = build_max_fix_attempts
    /\ check_passes = 0
    /\ check_calls > 1
    /\ ~build_result.success

\* C11 as stated: a fix call is made only after a failing check or clippy
\* run; a run whose first check and first clippy run pass ends with
\* success and no fix call; a run whose first check fails and whose first
\* fix call yields a candidate that passes check runs clippy on that
\* candidate after exactly one fix call, and ends with success when that
\* clippy run passes.
C11_FixOnlyAfterFailure ==
    /\ compile_fix_calls > 0 => check_calls > check_passes
    /\ clippy_fix_calls > 0 => clippy_calls > clippy_passes
    /\ (bpc = "done" /\ check_calls = 1 /\ check_passes = 1
           /\ clippy_passes = 1 /\ clippy_calls = 1) =>
          /\ build_result.success
          /\ compile_fix_calls = 0 /\ clippy_fix_calls = 0
    /\ (bpc = "clippy_fixes" /\ check_passes = 1 /\ binputs.rust_code = 1) =>
          /\ check_calls = 2
          /\ compile_fix_calls = 1
          /\ clippy_calls = 1
          /\ workdir = [rust_code |-> 1, toml_content |-> 1]
    /\ (bpc = "done" /\ check_passes = 1 /\ binputs.rust_code = 1
           /\ clippy_passes = 1 /\ clippy_calls = 1) =>
          /\ build_result.success
          /\ compile_fix_calls = 1 /\ clippy_fix_calls = 0

\* the BuildResult is a failure made by _ensure_build_output alone:
\* prepare_project raised after the sub-loops had reported success
PrepareFailed ==
    /\ build_result # None
    /\ ~build_result.success
    /\ HasKey(build_result.error, "prepare")

\* C11 amended: the same, the two runs ending with success unless the
\* final prepare_project call of _ensure_build_output raises.
C11_FixOnlyAfterFailureUnlessPrepareFails ==
    /\ compile_fix_calls > 0 => check_calls > check_passes
    /\ clippy_fix_calls > 0 => clippy_calls > clippy_passes
    /\ (bpc = "done" /\ check_calls = 1 /\ check_passes = 1
           /\ clippy_passes = 1 /\ clippy_calls = 1) =>
          /\ build_result.success \/ PrepareFailed
          /\ build_result.rust_code = 0
          /\ compile_fix_calls = 0 /\ clippy_fix_calls = 0
    /\ (bpc = "clippy_fixes" /\ check_passes = 1 /\ binputs.rust_code = 1) =>
          /\ check_calls = 2
          /\ compile_fix_calls = 1
          /\ clippy_calls = 1
          /\ workdir = [rust_code |-> 1, toml_content |-> 1]
    /\ (bpc = "done" /\ check_passes = 1 /\ binputs.rust_code = 1
           /\ clippy_passes = 1 /\ clippy_calls = 1) =>
          /\ build_result.success \/ PrepareFailed
          /\ build_result.rust_code = 1
          /\ compile_fix_calls = 1 /\ clippy_fix_calls = 0

\* C11 witness: the first check failed, the first fix call gave a candidate
\* that passed check and clippy, and the run ended with success.
C11_Witness ==
    /\ bpc = "done"
    /\ check_calls = 2 /\ check_passes = 1
    /\ clippy_calls = 1 /\ clippy_passes = 1
    /\ compile_fix_calls = 1
    /\ build_result.success

\* C12: when the compilation fix sub-loop has not recovered, the error of
\* the BuildResult is the diagnostic of the last check call of the run.
C12_LastCheckError ==
    (build_result # None /\ HasKey(binputs, "build_error")) =>
        /\ ~build_result.success
        /\ build_result.error.tool = "check"
        /\ build_result.error.call = check_calls
        /\ clippy_calls = 0

\* C12 witness: a run ended in failure after more than one check, the
\* first of them with another diagnostic than the last.
C12_Witness ==
    /\ bpc = "done"
    /\ HasKey(binputs, "build_error")
    /\ check_calls > 2
    /\ build_result.error.call = check_calls
    /\ build_fix_args.error.call < check_calls

\* the order of the stages of a run
StageOrder ==
    <<"Analyze", "Generate", "VerifyFixLoop", "BuildSupervisor",
      "ServiceProbe">>

\* C13: the stages of a migrate run start in the order Analyze, Generate,
\* VerifyFixLoop, BuildSupervisor, ServiceProbe, each once; while the
\* build sequence has not returned its result ServiceProbe has not
\* started, the loop of the test stage runs with ServiceProbe the stage
\* started last, and clippy is called only after a check has passed.
C13_StageOrder ==
    /\ Len(stages) <= Len(StageOrder)
    /\ \A i \in 1..Len(stages) : stages[i] = StageOrder[i]
    /\ bpc # "idle" => stages[Len(stages)] = "BuildSupervisor"
    /\ tpc = "loop" => stages[Len(stages)] = "ServiceProbe"
    /\ spawn_calls + test_fix_calls > 0 => stages = StageOrder
    /\ clippy_calls > 0 => check_passes > 0

\* C13 witness: a run went through its five stages, the build with a
\* clippy call, and returned.
C13_Witness ==
    /\ ppc = End
    /\ stages = StageOrder
    /\ final_result # None
    /\ HasKey(ctx.build.build_info, "output_dir")
    /\ spawn_calls > 0

\* C14: once the build has reported success = false, no server process is
\* started and the test stage makes no fix call, and the final result
\* carries the skipped marker of the test stage.
C14_NoProbeAfterFailedBuild ==
    (HasKey(ctx, "build") /\ ~ctx.build.success) =>
        /\ spawn_calls = 0
        /\ test_fix_calls = 0
        /\ HasKey(ctx, "test") /\ ctx.test.skipped
        /\ ppc = End => (final_result # None /\ ~final_result.success)

\* C15: a run that formats its final result returns success exactly when
\* the build reported success and the test stage, after its fix loop,
\* reported success.
C15_SuccessIffBuildAndProbe ==
    final_result # None =>
        (mret.success <=>
            /\ ctx.build.success
            /\ HasKey(ctx, "test_success") /\ ctx.test_success)

\* C16: after a failed analysis no later stage is started and the run
\* does not return success; a run that ends on the failure of generate
\* or of the initial verify has started no later stage and returns
\* success = false.
C16_FailedCapabilityStopsRun ==
    /\ (HasKey(ctx, "analysis") /\ HasKey(ctx.analysis, "error")) =>
          /\ stages = <<"Analyze">>
          /\ mret # None => ~mret.success
    /\ (ppc = End /\ final_result = None /\ Len(stages) < Len(StageOrder)) =>
          /\ ~mret.success
          /\ bpc = "idle" /\ spawn_calls = 0

\* C17: a run that has returned has called update_best_result exactly
\* once.
C17_OneUpdatePerRun ==
    /\ ubr_calls <= 1
    /\ ppc = End => ubr_calls = 1

\* C18: when the verify/fix loop was exhausted without a match and with a
\* best attempt, the final result has success = false and its
\* verification_score is the score of that best attempt.
C18_BestScoreReported ==
    (final_result # None /\ loop_outcome.kind = "exhausted"
        /\ loop_outcome.best_score # NegInf) =>
        /\ ~final_result.success
        /\ Fin(final_result.metrics.verification_score)
               = loop_outcome.best_score

\* C19: a call of update_best_result never lowers the stored best score,
\* replaces the stored best candidate only when the score it computed is
\* strictly greater than the stored best score, and leaves both fields as
\* they were when that score is equal or lower.
C19_BestOnlyImproves ==
    [][/\ best_verification_score' >= best_verification_score
       /\ state_best_result' # state_best_result =>
              ubr_score' > best_verification_score
       /\ ubr_score' <= best_verification_score =>
              /\ best_verification_score' = best_verification_score
              /\ state_best_result' = state_best_result]_vars

\* C19 witness: the stored best was replaced by one call, and a later call
\* with another verification result of an equal or lower score left it.
C19_Witness ==
    /\ ubr_calls = 2
    /\ state_best_result # None
    /\ ubr_score <= best_verification_score
    /\ ubr_args.verification_result # state_best_result.verification

\* C20: the score update_best_result computes for a verification result is
\* the score _calculate_fix_score gives the same verification result.
C20_SameScore ==
    (ubr_calls > 0 /\ HasKey(ubr_args.verification_result, "matches")) =>
        Fin(ubr_score) = calculate_fix_score(ubr_args.verification_result)

\* C21: each call of migrate starts on a MigrationState holding its initial
\* values: the initial best score, no best candidate, and nothing a previous
\* call on the same agent recorded (analysis, generation, verification).
C21_FreshStatePerRun ==
    ppc = 1 =>
        /\ best_verification_score = 0
        /\ state_best_result = None
        /\ current_analysis = None
        /\ latest_generation = None
        /\ last_verification_result = None

\* C22: what migrate returns for a failed run carries, with success = false,
\* the last diagnostic message and the aggregated metrics (the best score and
\* the best candidate the run recorded).
C22_FailureReported ==
    (mret # None /\ ~mret.success) =>
        /\ HasKey(mret, "error")
        /\ HasKey(mret, "metrics")
        /\ mret.metrics.verification_score = best_verification_score

\* test_server has returned (or raised), its finally included
Returned == probe_pc \in {"done", "exited"}

\* the event took place in this run of test_server
InEvents(e) == \E i \in DOMAIN probe_events : probe_events[i] = e

\* C23: once test_server has returned, on whatever path, the process handle
\* of the tester is None, its log file reference is None and the file
\* object of server.log is closed.
C23_HandlesCleared ==
    Returned =>
        /\ process = None
        /\ log_file = None
        /\ log_handle # "open"

\* C23 witness: a run that started the server and whose wait timed out has
\* returned.
C23_Witness ==
    /\ probe_pc = "done"
    /\ InEvents("spawn")
    /\ cause = "timeout"
    /\ log_handle = "closed"

\* C24: _stop_server never raises, not when the process it is to stop is
\* dead already; a call made when the handle is None (after a completed
\* teardown) sends no signal, closes nothing and leaves the state of the
\* tester as it was; and the teardown of a dead process clears the handles.
C24_TeardownIdempotent ==
    /\ [][(child # "running" /\ stop_calls' = stop_calls + 1) =>
              stop_error' = None]_vars
    /\ [][(process = None /\ stop_calls' = stop_calls + 1) =>
              UNCHANGED <<process, log_file, log_errors, log_handle,
                          signals, child, descendant>>]_vars
    /\ []((Returned /\ InEvents("spawn") /\ signals = <<>>) =>
              (process = None /\ log_file = None))

\* C24 witness: the server ended during the wait, the teardown of
\* test_server found it dead, and __aexit__ called _stop_server again.
C24_Witness ==
    /\ probe_pc = "exited"
    /\ cause = "early_exit"
    /\ stop_calls = 2
    /\ signals = <<>>

\* C25: the test script is run only after the wait reported readiness,
\* nothing of the run follows its teardown, and a run that started a
\* process has had its teardown by the time it returns, however it ended.
C25_ReadinessProbeTeardown ==
    /\ \A i \in DOMAIN probe_events :
         probe_events[i] = "probe" =>
             \E j \in 1..(i - 1) : probe_events[j] = "ready"
    /\ \A i \in DOMAIN probe_events :
         (probe_events[i] = "teardown" /\ probe_pc # "exited") =>
             i = Len(probe_events)
    /\ (Returned /\ InEvents("spawn")) =>
           \E i \in DOMAIN probe_events :
               /\ probe_events[i] = "teardown"
               /\ \E j \in 1..(i - 1) : probe_events[j] = "spawn"

\* C25 witness: a run cancelled while the test script ran has returned,
\* after readiness and with its teardown.
C25_Witness ==
    /\ probe_pc = "done"
    /\ cause = "cancelled"
    /\ InEvents("ready")
    /\ InEvents("teardown")

\* C26: once the teardown of a run that started a process is over, neither
\* the child nor a process the child started is running.
C26_TreeTerminated ==
    (Returned /\ InEvents("spawn")) =>
        (child # "running" /\ descendant # "running")

\* C27: an iteration of the wait that finds the process ended or a line of
\* the log matching a failure signature ends the wait with failure at once:
\* no GET is made, no further iteration starts, readiness is not reported
\* and the wait does not run into the timeout.
C27_WaitShortCircuit ==
    (last_check # None /\ (last_check.sig \/ last_check.exited)) =>
        /\ probe_pc \in {"finally", "done", "exited"}
        /\ ~InEvents("ready")
        /\ ~InEvents("probe")
        /\ cause = (IF last_check.sig THEN "log_signature" ELSE "early_exit")
        /\ HasKey(ret, "success") /\ ~ret.success

\* C27 witness: the process ended after an iteration that found it alive;
\* the next iteration found it ended, with a clean log.
C27_Witness ==
    /\ last_check # None
    /\ last_check.exited
    /\ ~last_check.sig
    /\ polls >= 1
    /\ probe_pc = "done"

\* C28: what test_server returns when the process ended before the timeout
\* differs from what it returned for a startup timeout or for a failure
\* signature in the log.
C28_EarlyExitDistinct ==
    (Returned /\ cause = "early_exit"
              /\ prev_cause \in {"timeout", "log_signature"}) =>
        ret # prev_ret

\* C29: a run whose test script ended reports success if and only if the
\* exit code is 0 and no line matching a failure signature was written to
\* the log since readiness.
C29_SuccessIffCleanSinceReady ==
    (Returned /\ script_obs # None) =>
        (ret.success <=>
            (script_obs.exit_code = 0 /\ script_obs.sig = sig_at_ready))

Category(cmd) ==
    IF cmd.kind = "return" THEN "exit_code"
    ELSE IF cmd.exc.exc = "TimeoutError" THEN "timeout"
    ELSE "spawn"

\* one failed command of each category
FailedCommands ==
    {[kind |-> "return", returncode |-> 1, stdout |-> "", stderr |-> "output"],
     [kind |-> "raise", exc |-> timeout_error(build_timeout)],
     [kind |-> "raise",
      exc |-> Exc("FileNotFoundError", "No such file or directory", 0)]}

\* the part of a returned tuple that is not message text: the flag and the
\* keys of the info dict
Shape(r) == [success |-> r.success, keys |-> DOMAIN r.info]

\* C31: the tuple an operation returns for a failed command tells the
\* category of the failure (non-zero exit code, timeout, spawn failure)
\* apart from the other two by something a caller can branch on, not only
\* by the wording of the message.
C31_CategoryDistinguished ==
    (hpc = "done" /\ hcmd # None /\ hresult = operation_result(hcmd)
                  /\ ~hresult.success) =>
        \A c \in FailedCommands :
            Category(c) # Category(hcmd) =>
                Shape(operation_result(c)) # Shape(hresult)

\* C32: every wait of test_server ends: a call of test_server that has
\* started eventually returns, also when the service never becomes ready
\* and when the test script never exits.
C32_ProbeReturns == (probe_pc = "validate") ~> (probe_pc = "done")

\* the part of C32 that concerns the readiness wait: it ends, with the
\* service ready or with a failure
C32_WaitEnds == (probe_pc = "poll") ~> (probe_pc \in {"script", "finally", "done"})

\* C33: an error raised while the teardown of test_server signals the
\* process, waits for it or closes the log does not leave _stop_server:
\* test_server returns the result it had determined.
C33_CleanupNeverReplaces ==
    (probe_pc = "done" /\ InEvents("spawn")) => stop_error = None

C35_ExceptionIsRetryable ==
    [][(pc = "loop" /\ fix_calls' = fix_calls + 1
                    /\ attempts_scored' = attempts_scored) =>
          /\ attempt' = attempt + 1
          /\ UNCHANGED <<inputs, verification_result, best_result,
                         best_score>>
          /\ pc' = "loop"
          /\ "Fix attempt failed" \in log']_vars

\* C35 witness: the loop has ended after all its attempts, one of which
\* raised in fix, one in the re-verification, and one of which was scored.
C35_Witness ==
    /\ pc = "done"
    /\ attempt = max_fix_attempts
    /\ "Fix attempt failed" \in log
    /\ fix_calls = max_fix_attempts
    /\ verify_calls > Cardinality(attempts_scored) + 1
    /\ fix_calls > verify_calls - 1
    /\ attempts_scored # {}
    /\ best_result # None

C37_FixReceivesLatest ==
    /\ [][(bpc = "build_fixes" /\ bpc' = "build_loop") =>
            /\ current_rust_code' = binputs.rust_code
            /\ current_toml_content' = binputs.toml_content
            /\ binputs.build_error.call = check_calls]_vars
    /\ [][(bpc = "clippy_fixes" /\ bpc' = "clippy_loop") =>
            /\ current_rust_code' = binputs.rust_code
            /\ current_toml_content' = binputs.toml_content
            /\ clippy_error' = binputs.clippy_error
            /\ clippy_error'.call = clippy_calls]_vars
    /\ [][compile_fix_calls' = compile_fix_calls + 1 =>
            /\ build_fix_args' = [rust_code |-> current_rust_code,
                                  toml_content |-> current_toml_content,
                                  category |-> "compilation",
                                  error |-> binputs.build_error]
            /\ IF check_calls' = check_calls
               THEN /\ current_rust_code' = current_rust_code
                    /\ current_toml_content' = current_toml_content
                    /\ binputs' = binputs
               ELSE bpc' = "build_loop" =>
                      /\ current_rust_code' = compile_fix_calls'
                      /\ current_toml_content' = compile_fix_calls'
                      /\ binputs'.build_error.tool = "check"
                      /\ binputs'.build_error.call = check_calls']_vars
    /\ [][clippy_fix_calls' = clippy_fix_calls + 1 =>
            /\ build_fix_args' = [rust_code |-> current_rust_code,
                                  toml_content |-> current_toml_content,
                                  category |-> "clippy",
                                  error |-> clippy_error]
            /\ IF clippy_calls' = clippy_calls
               THEN /\ current_rust_code' = current_rust_code
                    /\ current_toml_content' = current_toml_content
                    /\ clippy_error' = clippy_error
               ELSE bpc' = "clippy_loop" =>
                      /\ current_rust_code' =
                             compile_fix_calls + clippy_fix_calls'
                      /\ current_toml_content' =
                             compile_fix_calls + clippy_fix_calls'
                      /\ clippy_error'.tool = "clippy"
                      /\ clippy_error'.call = clippy_calls']_vars

\* C37 witness: in the compilation sub-loop the first fix call returned
\* candidate 1, whose check failed; the second fix call raised; the third
\* received candidate 1 and the diagnostic of the check of candidate 1.
C37_Witness ==
    /\ bpc = "build_loop"
    /\ compile_fix_calls = 3
    /\ build_fix_args.rust_code = 1
    /\ build_fix_args.error.call = 2
    /\ build_fix_args.error.tool = "check"

\* the compilation sub-loop used all its attempts: the BuildResult is the
\* one made from inputs["build_error"]
CompilationExhausted ==
    /\ build_result # None
    /\ compile_fix_calls = build_max_fix_attempts
    /\ HasKey(build_result.error, "tool")

\* the clippy sub-loop used all its attempts
ClippyExhausted ==
    /\ build_result # None
    /\ HasKey(build_result.error, "failed_after")

C39_ProbeFilesUntouched ==
    /\ [][step(ppc) \in {"check_rust", "server_tests", "handle_tests"} =>
              workdir' = workdir]_vars
    /\ []((step(ppc) = "format" /\ HasKey(ctx, "test_success")
              /\ ctx.test_success /\ test_fix_calls > 0) =>
             /\ ctx.build.rust_code = TestCandidate(test_fix_calls)
             /\ ctx.build.toml_content = TestCandidate(test_fix_calls)
             /\ workdir # Files(ctx.build.rust_code, ctx.build.toml_content))

\* C39 witness: the test passed in the call made after the second fix
\* call; the working directory holds the files the build left.
C39_Witness ==
    /\ step(ppc) = "format"
    /\ HasKey(ctx, "test_success") /\ ctx.test_success
    /\ test_fix_calls = 2
    /\ spawn_calls = 3
    /\ workdir # None
    /\ workdir.rust_code >= 0

\* C40: in a MigrationState made with its defaults, whatever calls of
\* update_best_result are made, the score of every call is at most 0,
\* best_verification_score stays 0 and best_result stays None.
C40_BestNeverRecorded ==
    /\ ubr_score <= 0
    /\ best_verification_score = 0
    /\ state_best_result = None

\* C40 witness: update_best_result was called MaxUpdateCalls times, the
\* last time with a verification result that has differences, for a
\* candidate.
C40_Witness ==
    /\ ubr_calls = MaxUpdateCalls
    /\ ubr_score < 0
    /\ ubr_args.rust_code = 1

====
